---------------------------- MODULE Spec2Model ----------------------------
(***************************************************************************)
(* Verification model of the deterministic MCP execution gateway:          *)
(*   - mcp/transport.py      request/response correlation on one stdio or  *)
(*                           WebSocket connection                          *)
(*   - rules/engine.py       RuleEngine (priority walk, terminal DENY)     *)
(*   - intent/classifier.py  ForcedOverrideRegistry and IntentEngine       *)
(*   - discovery/service.py  DiscoveryService.discover_server              *)
(*   - pipeline/orchestrator.py  Pipeline.execute, the eight stages        *)
(* Each subsystem has its own specification over its own variables; the    *)
(* variables of the other subsystems are held at their initial value.      *)
(***************************************************************************)
EXTENDS Integers, Sequences, FiniteSets, TLC

VARIABLES
    \* ---- mcp/transport.py: one StdioTransport / WebSocketTransport ----
    tkind,      \* "stdio" | "websocket": which class the object is
    tproc,      \* _process / _websocket: "new" (None, never connected), "open",
                \* "dead" (child exited / socket closed), "closed" (None again)
    treader,    \* _reader_task: "none" | "running" | "done"
    tdisc,      \* position of a disconnect() call: "no" | "cancelling" | "done"
    tlock,      \* _lock: 0 when free, else the request id that holds it
    tpending,   \* keys of _pending_requests (each maps to its request's future)
    tfut,       \* request id -> state of the future created for it
    tres,       \* request id -> response stored in the future by set_result
    rstate,     \* request id -> position of the send_request call that owns it
    rcaller,    \* request id -> task that called send_request (0: id not drawn)
    rresp,      \* request id -> response send_request returned
    nextId,     \* next request id (JsonRpcRequest.__post_init__ draws a fresh one)
    tserver,    \* request ids the server has received
    tlog,       \* request ids in the order the reader completed a waiter
    \* ---- rules/engine.py: one RuleEngine ----
    rules,      \* _rules: the rule list, in walk order
    rctx,       \* context of the evaluate() call just made (NoCtx: none)
    rresult,    \* RuleResult that call returned (NoResult: none)
    \* ---- intent/classifier.py: one IntentEngine ----
    overrides,  \* override_registry._overrides, in iteration order
    trained,    \* classifier.is_trained
    icall,      \* the call just made: "none" | "find_match" | "classify"
    itext,      \* its text argument
    iresult,    \* what it returned
    \* ---- discovery/service.py: discovery of one server S ----
    registered, \* S has a row in the registry
    dbTools,    \* committed tool catalog of S
    txTools,    \* catalog of S as the open session sees it
    dstate,     \* position of discover_server
    dtools,     \* tools the MCP client discovered in this run
    dk,         \* index of the next tool to register
    dstatus,    \* status column of S
    dresult,    \* DiscoveryResult of the last finished run
    lastGood,   \* catalog written by the last successful discovery
    dother,     \* committed tool catalog of another server
    txOther,    \* that catalog as the open session sees it
    dread,      \* what the last registry reader saw of S's catalog
    dlastError, \* last_error column of S's server row
    dfound,     \* the last two find_tool_by_intent calls, newest first
    \* ---- pipeline/orchestrator.py: one Pipeline ----
    ppc,        \* "idle" | "running" | "returned": position of execute
    pnext,      \* number of the stage execute runs next
    pinput,     \* PipelineInput of the call
    presult,    \* the PipelineResult being filled, then returned
    pcalls,     \* component methods execute has called for this request
    \* ---- mcp/client.py: one MCPClient and one server S ----
    ckind,      \* transport type configured for S
    cconn,      \* _connections.get(S) (NoConn: no entry)
    calive,     \* the transport made for S: "none" | "up" | "dead" | "closed"
    cpc,        \* position of connect_server
    cnew,       \* the MCPServerConnection connect_server is setting up
    cdone,      \* steps of the last connect_server that succeeded ("unanswered":
                \* the server stayed silent on notifications/initialized)
    cret,       \* what the last connect_server / call_tool returned
    xpc,        \* position of Pipeline._execute_tool
    xlog,       \* what that run of _execute_tool saw and did
    xres,       \* the StageResult it returned
    cobs        \* what a task running next to connect_server saw

tvars == <<tkind, tproc, treader, tdisc, tlock, tpending, tfut, tres,
           rstate, rcaller, rresp, nextId, tserver, tlog>>

revars == <<rules, rctx, rresult>>

ievars == <<overrides, trained, icall, itext, iresult>>

dvars == <<registered, dbTools, txTools, dstate, dtools, dk, dstatus, dresult,
           lastGood, dother, txOther, dread, dlastError, dfound>>

pvars == <<ppc, pnext, pinput, presult, pcalls>>

cvars == <<ckind, cconn, calive, cpc, cnew, cdone, cret, xpc, xlog, xres, cobs>>

VARIABLES
    binput,     \* schema, entity matches, defaults and overrides of a request
    bpc,        \* stage of the request: "start", "built", "validated"
    bresult,    \* ParameterBuildResult of stage 5
    bcheck      \* (is_valid, errors) of stage 6

bvars == <<binput, bpc, bresult, bcheck>>

VARIABLES
    \* ---- discovery/service.py: discover_all over the configured servers ----
    acfg,       \* _server_configs: per server, its "enabled" flag
    apc,        \* position of discover_all
    ak,         \* index of the config the current loop is at
    astage,     \* position of discover_server for that config
    areg,       \* servers register_servers has registered
    aresults    \* the list discover_all is building, then returns

avars == <<acfg, apc, ak, astage, areg, aresults>>

VARIABLES
    \* ---- registry/tool_registry.py: the mcp_servers and mcp_tools tables ----
    gservers,   \* committed rows of mcp_servers
    gtools,     \* committed rows of mcp_tools
    gnext,      \* the next primary key uuid4 hands out
    gtask,      \* per task: position and session state of its register_server
    glisted     \* the last list_tools call and what it returned

gvars == <<gservers, gtools, gnext, gtask, glisted>>

VARIABLES
    \* ---- concurrent Pipeline._execute_tool runs on one MCPClient, server S ----
    sconn,      \* _connections.get(S): 0, or the number of the stored transport
    slive,      \* numbers of the transports that are connected
    slock,      \* MCPClient._lock: 0 when free, else the execution that holds it
    snext,      \* number of the next transport create_transport makes
    sexec       \* per execution: position in stage 7, transport in use, result

svars == <<sconn, slive, slock, snext, sexec>>

vars == <<tvars, revars, ievars, dvars, pvars, cvars, bvars, avars, gvars, svars>>

-----------------------------------------------------------------------------
(* Bounds *)
NumCallers == 2       \* concurrent tasks calling send_request
MaxRequests == 2      \* requests drawn on the connection in one behaviour
MaxAddedRules == 2    \* rules added on top of the five default rules
MaxTextLen == 3       \* tokens in an input text
MaxAddedOverrides == 1 \* overrides added on top of the default ones
MaxTools == 2         \* tools a server advertises in one discovery
MaxServers == 2       \* servers in mcp_servers.json
NumExecutions == 2    \* Pipeline.execute calls that are in stage 7 together

Callers == 1..NumCallers
Ids == 1..MaxRequests
NoResp == [id |-> 0, for |-> 0]

\* Frames the server can put on the stream: the response to a request it has
\* received, a line that is not JSON, or JSON that is not an object.
FrameKinds == {"response", "badjson", "nonobject"}

-----------------------------------------------------------------------------
(* mcp/transport.py *)

\* StdioTransport.is_connected / WebSocketTransport.is_connected
is_connected == tproc = "open"

\* The response an MCP server writes for request i: it echoes the request id
\* and its result answers the request of i's caller.
ServerResponse(i) == [id |-> i, for |-> rcaller[i]]

HeadOfLineWaiter(resp, pend) ==
    IF pend = {} THEN 0 ELSE CHOOSE i \in pend : \A j \in pend : i <= j

\* _read_responses / _read_messages: "if response.id and response.id in
\* self._pending_requests": the waiter a response is matched to (0: none).
MatchWaiter(resp, pend) ==
    IF resp.id # 0 /\ resp.id \in pend THEN resp.id ELSE 0

\* connect(): spawn the child / open the socket and start the reader task.
TConnect(ok) ==
    /\ tproc = "new"
    /\ IF ok
         THEN /\ tproc' = "open"
              /\ treader' = "running"
         ELSE UNCHANGED <<tproc, treader>>
    /\ UNCHANGED <<tkind, tdisc, tlock, tpending, tfut, tres, rstate, rcaller,
                   rresp, nextId, tserver, tlog>>

Busy(c) == \E i \in Ids : rcaller[i] = c /\ rstate[i] \in {"locking", "writing", "waiting"}

\* Under the lock: create the future, store it in _pending_requests, start the
\* write. With _process/_websocket gone the write raises at once and the
\* entry stays in the map.
Register(i) ==
    /\ tfut' = [tfut EXCEPT ![i] = "pending"]
    /\ tpending' = tpending \cup {i}
    /\ IF tproc \in {"new", "closed"}
         THEN /\ rstate' = [rstate EXCEPT ![i] = "writeerror"]
              /\ tlock' = 0
         ELSE /\ rstate' = [rstate EXCEPT ![i] = "writing"]
              /\ tlock' = i

\* send_request, up to its first suspension point.
SendStart(c) ==
    /\ ~Busy(c)
    /\ nextId <= MaxRequests
    /\ nextId' = nextId + 1
    /\ rcaller' = [rcaller EXCEPT ![nextId] = c]
    /\ IF ~is_connected
         THEN /\ rstate' = [rstate EXCEPT ![nextId] = "notconnected"]
              /\ UNCHANGED <<tfut, tpending, tlock>>
         ELSE IF tlock # 0
           THEN /\ rstate' = [rstate EXCEPT ![nextId] = "locking"]
                /\ UNCHANGED <<tfut, tpending, tlock>>
           ELSE Register(nextId)
    /\ UNCHANGED <<tkind, tproc, treader, tdisc, tres, rresp, tserver, tlog>>

\* send_request resumes with the lock ("async with self._lock").
SendLocked(i) ==
    /\ rstate[i] = "locking"
    /\ tlock = 0
    /\ Register(i)
    /\ UNCHANGED <<tkind, tproc, treader, tdisc, tres, rcaller, rresp, nextId,
                   tserver, tlog>>

\* stdin.drain() / websocket.send() completes, or raises on a dead connection;
\* either way the lock is released when the "async with" block is left.
WriteDone(i) ==
    /\ rstate[i] = "writing"
    /\ tlock' = 0
    /\ IF tproc = "open"
         THEN /\ rstate' = [rstate EXCEPT ![i] = "waiting"]
              /\ tserver' = tserver \cup {i}
         ELSE /\ rstate' = [rstate EXCEPT ![i] = "writeerror"]
              /\ UNCHANGED tserver
    /\ UNCHANGED <<tkind, tproc, treader, tdisc, tpending, tfut, tres, rcaller,
                   rresp, nextId, tlog>>

\* One pass of the reader loop over a frame from the server.
ReaderFrame(kind, i) ==
    /\ treader = "running"
    /\ tproc = "open"
    /\ kind \in FrameKinds
    /\ i \in tserver
    /\ IF kind = "response"
         THEN LET resp == ServerResponse(i)
                  w == MatchWaiter(resp, tpending)
              IN  IF w # 0
                    THEN /\ tpending' = tpending \ {w}
                         /\ IF tfut[w] = "pending"
                              THEN /\ tfut' = [tfut EXCEPT ![w] = "result"]
                                   /\ tres' = [tres EXCEPT ![w] = resp]
                                   /\ tlog' = Append(tlog, resp.id)
                              ELSE UNCHANGED <<tfut, tres, tlog>>
                         /\ UNCHANGED treader
                    ELSE UNCHANGED <<tpending, tfut, tres, tlog, treader>>
         ELSE IF kind = "badjson"
           THEN \* json.JSONDecodeError: logged, the loop goes on
                UNCHANGED <<tpending, tfut, tres, tlog, treader>>
           ELSE \* from_dict raises AttributeError: caught inside the stdio loop,
                \* outside the WebSocket "async for"
                /\ treader' = IF tkind = "websocket" THEN "done" ELSE treader
                /\ UNCHANGED <<tpending, tfut, tres, tlog>>
    /\ UNCHANGED <<tkind, tproc, tdisc, tlock, rstate, rcaller, rresp, nextId, tserver>>

\* The child exits / the peer closes the socket.
ConnectionLost ==
    /\ tproc = "open"
    /\ tproc' = "dead"
    /\ UNCHANGED <<tkind, treader, tdisc, tlock, tpending, tfut, tres, rstate,
                   rcaller, rresp, nextId, tserver, tlog>>

\* The reader sees end of stream (readline returns b"" / ConnectionClosed).
ReaderEnd ==
    /\ treader = "running"
    /\ tproc = "dead"
    /\ treader' = "done"
    /\ UNCHANGED <<tkind, tproc, tdisc, tlock, tpending, tfut, tres, rstate,
                   rcaller, rresp, nextId, tserver, tlog>>

ResumeInAnyOrder(i, ready, log) == TRUE

\* future.set_result schedules the waiting task with loop.call_soon, and the
\* event loop runs its ready queue first in, first out: of the tasks whose
\* future holds a result, the one set first runs first.
ResumeNext(i, ready, log) ==
    \A j \in ready : \A a, b \in 1..Len(log) : (log[a] = i /\ log[b] = j) => a <= b

\* wait_for returns the future's result.
SendReturn(i) ==
    /\ rstate[i] = "waiting"
    /\ tfut[i] = "result"
    /\ ResumeNext(i, {j \in Ids : rstate[j] = "waiting" /\ tfut[j] = "result"}, tlog)
    /\ rstate' = [rstate EXCEPT ![i] = "returned"]
    /\ rresp' = [rresp EXCEPT ![i] = tres[i]]
    /\ UNCHANGED <<tkind, tproc, treader, tdisc, tlock, tpending, tfut, tres,
                   rcaller, nextId, tserver, tlog>>

\* MCP_EXECUTION_TIMEOUT expires: wait_for cancels the future, send_request
\* pops the id and raises TimeoutError.
SendTimeout(i) ==
    /\ rstate[i] = "waiting"
    /\ tfut[i] = "pending"
    /\ tfut' = [tfut EXCEPT ![i] = "cancelled"]
    /\ tpending' = tpending \ {i}
    /\ rstate' = [rstate EXCEPT ![i] = "timeout"]
    /\ UNCHANGED <<tkind, tproc, treader, tdisc, tlock, tres, rcaller, rresp,
                   nextId, tserver, tlog>>

\* The calling task is cancelled at one of send_request's awaits. No handler
\* in send_request catches CancelledError.
SendCancel(i) ==
    /\ rstate[i] \in {"locking", "writing", "waiting"}
    /\ rstate[i] = "waiting" => tfut[i] = "pending"
    /\ rstate' = [rstate EXCEPT ![i] = "cancelled"]
    /\ tfut' = [tfut EXCEPT ![i] = IF rstate[i] = "waiting" THEN "cancelled" ELSE @]
    /\ tlock' = IF rstate[i] = "writing" THEN 0 ELSE tlock
    /\ UNCHANGED <<tkind, tproc, treader, tdisc, tpending, tres, rcaller, rresp,
                   nextId, tserver, tlog>>

\* disconnect(), first half: cancel the reader task and await it.
DisconnectBegin ==
    /\ tdisc = "no"
    /\ tproc \in {"open", "dead"}
    /\ tdisc' = "cancelling"
    /\ treader' = IF treader = "running" THEN "done" ELSE treader
    /\ UNCHANGED <<tkind, tproc, tlock, tpending, tfut, tres, rstate, rcaller,
                   rresp, nextId, tserver, tlog>>

\* disconnect(), second half: terminate the child / close the socket and
\* drop the handle.
DisconnectFinish ==
    /\ tdisc = "cancelling"
    /\ tdisc' = "done"
    /\ tproc' = "closed"
    /\ UNCHANGED <<tkind, treader, tlock, tpending, tfut, tres, rstate, rcaller,
                   rresp, nextId, tserver, tlog>>

-----------------------------------------------------------------------------
(* rules/engine.py *)

\* settings.nlp.INTENT_CONFIDENCE_THRESHOLD (0.7), in hundredths
INTENT_CONFIDENCE_THRESHOLD == 70
\* the literal of the rate_limit rule
RATE_LIMIT_REQUESTS == 1000

\* A modification map is the set of its <<key, value>> pairs.
NoMods == {}
NoCtx == [role |-> "none"]
NoResult == [decision |-> "none"]

Roles == {"guest", "admin"}
Confidences == {30, 90}
RequestCounts == {0, 1001}

\* RuleContext.to_dict(): the fields the rules read.
Contexts ==
    [role : Roles, confidence : Confidences, is_forced : BOOLEAN,
     is_destructive : BOOLEAN, requires_confirmation : BOOLEAN,
     request_count : RequestCounts]

Rule(name, description, priority, enabled, decision, logic, mods) ==
    [name |-> name, description |-> description, priority |-> priority,
     enabled |-> enabled, decision |-> decision, logic |-> logic,
     modifications |-> mods]

\* RuleEngine.DEFAULT_RULES, in the order of the class body
DEFAULT_RULES ==
    << Rule("confidence_threshold", "Deny if intent confidence is below threshold",
            100, TRUE, "DENY", "confidence_threshold", NoMods),
       Rule("guest_readonly", "Guest users can only use read operations",
            90, TRUE, "DENY", "guest_readonly", NoMods),
       Rule("destructive_confirmation", "Require confirmation for destructive operations",
            80, TRUE, "MODIFY", "destructive_confirmation",
            {<<"requires_confirmation", "true">>}),
       Rule("admin_confidence_bypass", "Admin users can bypass low confidence",
            200, TRUE, "ALLOW", "admin_confidence_bypass", NoMods),
       Rule("rate_limit", "Deny if too many requests in session",
            50, TRUE, "DENY", "rate_limit", NoMods) >>

\* Rules a caller adds with add_rule (the shapes tests/test_rule_engine.py
\* uses: always-true logic, every decision, a disabled rule, a tie with a
\* default priority, an empty description).
CustomRules ==
    { Rule("always_deny", "Always deny", 100, TRUE, "DENY", "always", NoMods),
      Rule("always_allow", "Always allow", 50, TRUE, "ALLOW", "always", NoMods),
      Rule("top_allow", "Allow first", 300, TRUE, "ALLOW", "always", NoMods),
      Rule("tag_request", "Tag the request", 150, TRUE, "MODIFY", "always",
           {<<"tag", "audit">>}),
      Rule("tag_again", "Tag the request again", 120, TRUE, "MODIFY", "always",
           {<<"tag", "review">>, <<"level", "2">>}),
      Rule("off_deny", "Disabled deny", 500, FALSE, "DENY", "always", NoMods),
      Rule("silent_deny", "", 250, TRUE, "DENY", "is_guest", NoMods) }

jsonLogicForcedIgnored(logic, ctx) ==
    CASE logic = "confidence_threshold" -> ctx.confidence < INTENT_CONFIDENCE_THRESHOLD
      [] logic = "guest_readonly" -> ctx.role = "guest" /\ ctx.is_destructive
      [] logic = "destructive_confirmation" ->
            ctx.is_destructive /\ ~ctx.requires_confirmation
      [] logic = "admin_confidence_bypass" ->
            ctx.role = "admin" /\ ctx.confidence < INTENT_CONFIDENCE_THRESHOLD
      [] logic = "rate_limit" -> ctx.request_count > RATE_LIMIT_REQUESTS
      [] logic = "always" -> TRUE
      [] logic = "is_guest" -> ctx.role = "guest"
      [] OTHER -> FALSE

\* json_logic.jsonLogic(rule.logic, context) for the predicate trees in use.
jsonLogic(logic, ctx) ==
    CASE logic = "confidence_threshold" ->
            (~ctx.is_forced) /\ ctx.confidence < INTENT_CONFIDENCE_THRESHOLD
      [] logic = "guest_readonly" -> ctx.role = "guest" /\ ctx.is_destructive
      [] logic = "destructive_confirmation" ->
            ctx.is_destructive /\ ~ctx.requires_confirmation
      [] logic = "admin_confidence_bypass" ->
            ctx.role = "admin" /\ ctx.confidence < INTENT_CONFIDENCE_THRESHOLD
      [] logic = "rate_limit" -> ctx.request_count > RATE_LIMIT_REQUESTS
      [] logic = "always" -> TRUE
      [] logic = "is_guest" -> ctx.role = "guest"
      [] OTHER -> FALSE

\* Rule.evaluate
RuleMatches(rule, ctx) == jsonLogic(rule.logic, ctx)

\* list.sort(key=priority, reverse=True) is stable: a rule goes after every
\* rule of greater or equal priority that preceded it.
RECURSIVE InsertByPriority(_, _)
InsertByPriority(sorted, r) ==
    IF sorted = <<>> THEN <<r>>
    ELSE IF Head(sorted).priority >= r.priority
      THEN <<Head(sorted)>> \o InsertByPriority(Tail(sorted), r)
      ELSE <<r>> \o sorted

RECURSIVE SortByPriority(_)
SortByPriority(s) ==
    IF s = <<>> THEN <<>>
    ELSE InsertByPriority(SortByPriority(SubSeq(s, 1, Len(s) - 1)), s[Len(s)])

KeepInsertionOrder(s) == s

\* RuleEngine._sort_rules
SortRules(s) == SortByPriority(s)

KeepEarlierMods(a, b) == a \cup {q \in b : \A p \in a : p[1] # q[1]}

\* dict.update
MergeMods(a, b) == {p \in a : \A q \in b : q[1] # p[1]} \cup b

AllowKeepsModify(final_decision) == final_decision

\* The ALLOW branch of RuleEngine.evaluate: "ALLOW rules can override
\* previous decisions".
AllowOverrides(final_decision) ==
    IF final_decision # "DENY" THEN "ALLOW" ELSE final_decision

\* The return statement of the DENY branch of RuleEngine.evaluate.
DenyResult(rule, matched, evaluated) ==
    [decision |-> "DENY", matched_rules |-> matched, reason |-> rule.description,
     modifications |-> NoMods, terminal_rule |-> rule.name, evaluated |-> evaluated]

\* The loop of RuleEngine.evaluate from position k on. acc carries
\* matched_rules, accumulated_modifications, final_decision and, for the
\* claims, the names of the rules whose predicate has been evaluated.
RECURSIVE Walk(_, _, _, _)
Walk(rs, k, ctx, acc) ==
    IF k > Len(rs)
      THEN [decision |-> acc.decision, matched_rules |-> acc.matched,
            reason |-> "None", modifications |-> acc.mods,
            terminal_rule |-> "None", evaluated |-> acc.evaluated]
    ELSE LET rule == rs[k]
             seen == Append(acc.evaluated, rule.name)
         IN  IF ~rule.enabled THEN Walk(rs, k + 1, ctx, acc)
             ELSE IF ~RuleMatches(rule, ctx)
               THEN Walk(rs, k + 1, ctx, [acc EXCEPT !.evaluated = seen])
             ELSE LET matched == Append(acc.matched, rule.name)
                  IN  IF rule.decision = "DENY"
                        THEN DenyResult(rule, matched, seen)
                      ELSE IF rule.decision = "MODIFY"
                        THEN Walk(rs, k + 1, ctx,
                                  [matched |-> matched, evaluated |-> seen,
                                   decision |-> "MODIFY",
                                   mods |-> MergeMods(acc.mods, rule.modifications)])
                      ELSE Walk(rs, k + 1, ctx,
                                [matched |-> matched, evaluated |-> seen,
                                 decision |-> AllowOverrides(acc.decision),
                                 mods |-> acc.mods])

\* RuleEngine.evaluate
evaluate(rs, ctx) ==
    Walk(rs, 1, ctx, [matched |-> <<>>, evaluated |-> <<>>,
                      decision |-> "ALLOW", mods |-> NoMods])

HasRule(name) == \E k \in 1..Len(rules) : rules[k].name = name

\* RuleEngine.add_rule
AddRule(r) ==
    /\ rresult = NoResult
    /\ Len(rules) < Len(DEFAULT_RULES) + MaxAddedRules
    /\ ~HasRule(r.name)
    /\ rules' = SortRules(Append(rules, r))
    /\ UNCHANGED <<rctx, rresult>>

\* RuleEngine.remove_rule
RemoveRule(name) ==
    /\ rresult = NoResult
    /\ HasRule(name)
    /\ rules' = SelectSeq(rules, LAMBDA r : r.name # name)
    /\ UNCHANGED <<rctx, rresult>>

\* RuleEngine.load_from_database on the records ToolRegistry.get_rules
\* returns: they carry no "decision_on_match" key, so RuleDecision("allow")
\* raises ValueError for the first record, before anything is appended.
LoadRulesFromDatabase ==
    /\ rresult = NoResult
    /\ UNCHANGED <<rules, rctx, rresult>>

\* A call of RuleEngine.evaluate(context): rresult shows what it returns.
Evaluate(ctx) ==
    /\ rresult = NoResult
    /\ rctx' = ctx
    /\ rresult' = evaluate(rules, ctx)
    /\ UNCHANGED rules

\* The caller takes the RuleResult.
EvaluateReturn ==
    /\ rresult # NoResult
    /\ rctx' = NoCtx
    /\ rresult' = NoResult
    /\ UNCHANGED rules

RulesOff ==
    /\ rules = <<>>
    /\ rctx = NoCtx
    /\ rresult = NoResult

\* RuleEngine.__init__
RulesInit ==
    /\ rules = SortRules(DEFAULT_RULES)
    /\ rctx = NoCtx
    /\ rresult = NoResult

-----------------------------------------------------------------------------
(* intent/classifier.py *)

\* An input text is a sequence of tokens separated by single blanks. "_" is
\* a run of extra blanks (a whitespace-only token), "SNAP" an upper-case word.
Words == {"show", "files"}
Tokens == Words \cup {"SNAP", "_"}
BoundedSeq(S, n) == UNION {[1..m -> S] : m \in 0..n}
Texts == BoundedSeq(Tokens, MaxTextLen)

\* str.lower, token by token
LowerTok(t) == IF t = "SNAP" THEN "snap" ELSE t
Lower(text) == [k \in 1..Len(text) |-> LowerTok(text[k])]

\* str.strip
RECURSIVE Strip(_)
Strip(text) ==
    IF text = <<>> THEN <<>>
    ELSE IF Head(text) = "_" THEN Strip(Tail(text))
    ELSE IF text[Len(text)] = "_" THEN Strip(SubSeq(text, 1, Len(text) - 1))
    ELSE text

\* str.startswith / substring test
StartsWith(text, p) == Len(p) <= Len(text) /\ SubSeq(text, 1, Len(p)) = p
Contains(text, p) ==
    \E i \in 1..(Len(text) + 1) :
        i + Len(p) - 1 <= Len(text) /\ SubSeq(text, i, i + Len(p) - 1) = p

\* A regular expression of the override list, compiled: an optional "^" and a
\* sequence of word alternations, each possibly optional, separated by \s+.
Alt(words) == [alt |-> words, opt |-> FALSE]
Opt(words) == [alt |-> words, opt |-> TRUE]
AnyWord == Words \cup {"snap", "all", "to", "on", "from"}

\* elems[k..] match the tokens from position i on; blanks between two
\* elements are skipped by \s+.
RECURSIVE MatchFrom(_, _, _, _)
MatchFrom(elems, k, toks, i) ==
    IF k > Len(elems) THEN TRUE
    ELSE \/ elems[k].opt /\ MatchFrom(elems, k + 1, toks, i)
         \/ /\ i <= Len(toks)
            /\ toks[i] \in elems[k].alt
            /\ MatchFrom(elems, k + 1, toks, i + 1)
         \/ /\ k > 1
            /\ i <= Len(toks)
            /\ toks[i] = "_"
            /\ MatchFrom(elems, k, toks, i + 1)

\* re.search(pattern, text, re.IGNORECASE)
ReSearch(o, text) ==
    IF o.anchored THEN MatchFrom(o.elems, 1, Lower(text), 1)
    ELSE \E i \in 1..(Len(text) + 1) : MatchFrom(o.elems, 1, Lower(text), i)

Regex(pattern, anchored, elems, intent, priority) ==
    [pattern |-> pattern, pattern_type |-> "regex", target_intent |-> intent,
     priority |-> priority, enabled |-> TRUE, anchored |-> anchored,
     elems |-> elems, literal |-> <<>>]

Literal(pattern, type, literal, intent, priority, enabled) ==
    [pattern |-> pattern, pattern_type |-> type, target_intent |-> intent,
     priority |-> priority, enabled |-> enabled, anchored |-> FALSE,
     elems |-> <<>>, literal |-> literal]

LSG == {"list", "show", "get"}

\* ForcedOverrideRegistry.DEFAULT_OVERRIDES, in the order of the class body
DEFAULT_OVERRIDES ==
    << Regex("^(list|show|get)\\s+(files?|directory|dir|folder)", TRUE,
             <<Alt(LSG), Alt({"file", "files", "directory", "dir", "folder"})>>,
             "list_files", 100),
       Regex("^read\\s+(file|content)", TRUE,
             <<Alt({"read"}), Alt({"file", "content"})>>, "read_file", 100),
       Regex("^(create|write|save)\\s+file", TRUE,
             <<Alt({"create", "write", "save"}), Alt({"file"})>>, "write_file", 100),
       Regex("^(delete|remove)\\s+file", TRUE,
             <<Alt({"delete", "remove"}), Alt({"file"})>>, "delete_file", 100),
       Regex("^fetch\\s+(url|http|https|webpage|page)", TRUE,
             <<Alt({"fetch"}), Alt({"url", "http", "https", "webpage", "page"})>>,
             "fetch_url", 100),
       Regex("^(get|download)\\s+(from\\s+)?(url|http|https)", TRUE,
             <<Alt({"get", "download"}), Opt({"from"}), Alt({"url", "http", "https"})>>,
             "fetch_url", 100),
       Regex("^(store|save|put)\\s+(in|to)?\\s*memory", TRUE,
             <<Alt({"store", "save", "put"}), Opt({"in", "to"}), Alt({"memory"})>>,
             "store_memory", 100),
       Regex("^(get|retrieve|fetch)\\s+(from\\s+)?memory", TRUE,
             <<Alt({"get", "retrieve", "fetch"}), Opt({"from"}), Alt({"memory"})>>,
             "retrieve_memory", 100),
       Literal("help", "exact", <<"help">>, "show_help", 200, TRUE),
       Regex("(list|show|get)\\s+(all\\s+)?tools?", FALSE,
             <<Alt(LSG), Opt({"all"}), Alt({"tool", "tools"})>>, "list_tools", 200),
       Regex("(list|show|get)\\s+(all\\s+)?servers?", FALSE,
             <<Alt(LSG), Opt({"all"}), Alt({"server", "servers"})>>, "list_servers", 200),
       Regex("(show|get|check)\\s+(server\\s+)?status", FALSE,
             <<Alt({"show", "get", "check"}), Opt({"server"}), Alt({"status"})>>,
             "list_servers", 200),
       Regex("(navigate|go)\\s+(to\\s+)?(\\w+|https?://)", FALSE,
             <<Alt({"navigate", "go"}), Opt({"to"}), Alt(AnyWord)>>,
             "browser_navigate", 150),
       Regex("(click|press|tap)\\s+(on\\s+)?", FALSE,
             <<Alt({"click", "press", "tap"}), Alt(AnyWord \cup {"_"})>>,
             "browser_click", 150),
       Regex("(screenshot|capture|snap)", FALSE,
             <<Alt({"screenshot", "capture", "snap"})>>, "browser_screenshot", 150) >>

\* Overrides a caller adds with add_override: the two of
\* tests/test_intent_classification.py (one pattern, two priorities), a
\* disabled one and a catch-all regular expression.
CustomOverrides ==
    { Literal("files", "exact", <<"files">>, "low_priority", 10, TRUE),
      Literal("files", "exact", <<"files">>, "high_priority", 100, TRUE),
      Literal("snap", "contains", <<"snap">>, "disabled_intent", 300, FALSE),
      Regex(".*", FALSE, <<>>, "fallback", 0) }

\* Records ToolRegistry.get_forced_overrides returns (enabled ones only).
DbOverrides ==
    { Literal("help", "contains", <<"help">>, "db_help", 250, TRUE),
      Literal("show files", "prefix", <<"show", "files">>, "db_list", 100, TRUE) }

\* ForcedOverride.matches
matches(o, text) ==
    IF ~o.enabled THEN FALSE
    ELSE LET normalized_text == Strip(Lower(text))
         IN  CASE o.pattern_type = "exact" -> normalized_text = Lower(o.literal)
               [] o.pattern_type = "prefix" -> StartsWith(normalized_text, Lower(o.literal))
               [] o.pattern_type = "contains" -> Contains(normalized_text, Lower(o.literal))
               [] o.pattern_type = "regex" -> ReSearch(o, text)
               [] OTHER -> FALSE

RECURSIVE InsertOverride(_, _)
InsertOverride(sorted, o) ==
    IF sorted = <<>> THEN <<o>>
    ELSE IF Head(sorted).priority >= o.priority
      THEN <<Head(sorted)>> \o InsertOverride(Tail(sorted), o)
      ELSE <<o>> \o sorted

\* self._overrides.sort(key=lambda x: x.priority, reverse=True): stable
RECURSIVE SortOverrides(_)
SortOverrides(s) ==
    IF s = <<>> THEN <<>>
    ELSE InsertOverride(SortOverrides(SubSeq(s, 1, Len(s) - 1)), s[Len(s)])

NoMatch == [intent |-> "None", pattern |-> "None"]

\* ForcedOverrideRegistry.find_match: the first override of the list that
\* matches.
RECURSIVE FirstMatch(_, _, _)
FirstMatch(ovs, k, text) ==
    IF k > Len(ovs) THEN NoMatch
    ELSE IF matches(ovs[k], text)
      THEN [intent |-> ovs[k].target_intent, pattern |-> ovs[k].pattern]
      ELSE FirstMatch(ovs, k + 1, text)

find_match(ovs, text) == FirstMatch(ovs, 1, text)

\* IntentClassifier.predict outcomes: (intent, confidence in hundredths), or
\* an exception.
Predictions ==
    { [intent |-> "list_files", confidence |-> 90, raises |-> FALSE],
      [intent |-> "None", confidence |-> 0, raises |-> TRUE] }

IntentResult(intent, confidence, is_forced, pattern, source, predicted) ==
    [intent |-> intent, confidence |-> confidence, is_forced |-> is_forced,
     matched_pattern |-> pattern, source |-> source, predict_called |-> predicted]

EmptyOnly(text) == text = <<>>

\* "if not text or not text.strip()", of EntityExtractor.extract and of
\* IntentEngine.classify
IsBlank(text) == text = <<>> \/ Strip(text) = <<>>

ClassifierResult(isTrained, pred) ==
    IF ~isTrained
      THEN IntentResult("unknown", 0, FALSE, "None", "classifier_not_trained", FALSE)
    ELSE IF pred.raises
      THEN IntentResult("unknown", 0, FALSE, "None", "error", TRUE)
    ELSE IntentResult(pred.intent, pred.confidence, FALSE, "None", "ml_classifier", TRUE)

classifyModelFirst(text, ovs, isTrained, pred) ==
    IF IsBlank(text)
      THEN IntentResult("unknown", 0, FALSE, "None", "empty_input", FALSE)
    ELSE IF isTrained /\ ~pred.raises
      THEN ClassifierResult(isTrained, pred)
    ELSE LET m == find_match(ovs, text)
         IN  IF m # NoMatch
               THEN IntentResult(m.intent, 100, TRUE, m.pattern, "forced_override", TRUE)
               ELSE ClassifierResult(isTrained, pred)

\* IntentEngine.classify; pred is what classifier.predict(text) would do.
classify(text, ovs, isTrained, pred) ==
    IF IsBlank(text)
      THEN IntentResult("unknown", 0, FALSE, "None", "empty_input", FALSE)
    ELSE LET m == find_match(ovs, text)
         IN  IF m # NoMatch
               THEN IntentResult(m.intent, 100, TRUE, m.pattern, "forced_override", FALSE)
               ELSE ClassifierResult(isTrained, pred)

NoIntent == [intent |-> "none"]

\* ForcedOverrideRegistry.add_override
AddOverride(o) ==
    /\ icall = "none"
    /\ Len(overrides) < Len(DEFAULT_OVERRIDES) + MaxAddedOverrides
    /\ \A k \in 1..Len(overrides) : overrides[k] # o
    /\ overrides' = SortOverrides(Append(overrides, o))
    /\ UNCHANGED <<trained, icall, itext, iresult>>

\* ForcedOverrideRegistry.remove_override
RemoveOverride(pattern) ==
    /\ icall = "none"
    /\ \E k \in 1..Len(overrides) : overrides[k].pattern = pattern
    /\ overrides' = SelectSeq(overrides, LAMBDA o : o.pattern # pattern)
    /\ UNCHANGED <<trained, icall, itext, iresult>>

\* ForcedOverrideRegistry.load_from_database / IntentEngine.load_overrides_from_db
LoadOverridesFromDatabase(recs) ==
    /\ icall = "none"
    /\ Len(overrides) + Len(recs) <= Len(DEFAULT_OVERRIDES) + MaxAddedOverrides
    /\ overrides' = SortOverrides(overrides \o recs)
    /\ UNCHANGED <<trained, icall, itext, iresult>>

\* IntentEngine.train_classifier succeeds
TrainClassifier ==
    /\ icall = "none"
    /\ ~trained
    /\ trained' = TRUE
    /\ UNCHANGED <<overrides, icall, itext, iresult>>

\* A call of ForcedOverrideRegistry.find_match(text)
FindMatch(text) ==
    /\ icall = "none"
    /\ icall' = "find_match"
    /\ itext' = text
    /\ iresult' = find_match(overrides, text)
    /\ UNCHANGED <<overrides, trained>>

\* A call of IntentEngine.classify(text)
Classify(text, pred) ==
    /\ icall = "none"
    /\ icall' = "classify"
    /\ itext' = text
    /\ iresult' = classify(text, overrides, trained, pred)
    /\ UNCHANGED <<overrides, trained>>

\* The caller takes the result.
IntentReturn ==
    /\ icall # "none"
    /\ icall' = "none"
    /\ itext' = <<>>
    /\ iresult' = NoIntent
    /\ UNCHANGED <<overrides, trained>>

IntentOff ==
    /\ overrides = <<>>
    /\ trained = FALSE
    /\ icall = "none"
    /\ itext = <<>>
    /\ iresult = NoIntent

\* IntentEngine.__init__: the registry copies DEFAULT_OVERRIDES as they are;
\* classifier.load() finds a saved model or not.
IntentInit ==
    /\ overrides = DEFAULT_OVERRIDES
    /\ trained \in BOOLEAN
    /\ icall = "none"
    /\ itext = <<>>
    /\ iresult = NoIntent

-----------------------------------------------------------------------------
(* discovery/service.py, registry/tool_registry.py, database/connection.py *)

\* Tools a server may advertise: a name and the revision of its schema.
ToolPool ==
    { [name |-> "read_file", version |-> 1],
      [name |-> "read_file", version |-> 2],
      [name |-> "write_file", version |-> 1] }

NoDiscovery == [success |-> "none"]

DiscoveryResult(success, discovered, error, cause) ==
    [success |-> success, tools_discovered |-> discovered, error |-> error,
     cause |-> cause]

\* ToolRegistry.register_tool: update the row of that name or insert one
Upsert(catalog, tool) ==
    {t \in catalog : t.name # tool.name} \cup {tool}

\* delete(MCPTool).where(MCPTool.server_id == server), seen on the rows of
\* one server
DeleteEverywhere(rows, rowsOf, server) == {}

DeleteWhereServer(rows, rowsOf, server) == IF rowsOf = server THEN {} ELSE rows

\* register_tool looks the row up by (server_id, tool_name)
UpsertWhereServer(rows, rowsOf, server, tool) ==
    IF rowsOf = server THEN Upsert(rows, tool) ELSE rows

DirtyView(committed, inSession) == inSession

\* A reader runs in a session of its own and sees committed rows only.
ReaderView(committed, inSession) == committed

NotRead == {[name |-> "none", version |-> 0]}

KeepPartial(committed, inSession) == inSession

\* get_async_session on an exception: session.rollback() drops what the
\* session wrote
Rollback(committed, inSession) == committed

\* ToolRegistry.update_server_status: an UPDATE ... WHERE server_id = S
StatusKept(status) == dstatus

StatusAfter(status) == IF registered THEN status ELSE dstatus

\* update_server_status writes last_error = error in the same UPDATE
LastErrorAfter(error) == IF registered THEN error ELSE dlastError

\* discover_server up to the connect: status becomes DISCOVERING
DiscoverBegin ==
    /\ dstate = "idle"
    /\ dstatus' = StatusAfter("discovering")
    /\ dlastError' = LastErrorAfter("None")
    /\ dstate' = "connecting"
    /\ dresult' = NoDiscovery
    /\ dtools' = <<>>
    /\ dk' = 1
    /\ UNCHANGED <<registered, dbTools, txTools, lastGood, dother, txOther, dread, dfound>>

\* mcp_client.connect_server returns False: transport.connect failed or the
\* initialize handshake failed
ConnectFails(cause) ==
    /\ dstate = "connecting"
    /\ dstatus' = StatusAfter("error")
    /\ dlastError' = LastErrorAfter("Failed to connect")
    /\ dresult' = DiscoveryResult(FALSE, 0, "Failed to connect", cause)
    /\ dstate' = "idle"
    /\ UNCHANGED <<registered, dbTools, txTools, dtools, dk, lastGood, dother,
                   txOther, dread, dfound>>

\* connect_server returns True with the tools of tools/list; then
\* registry.get_server and the session is opened
ConnectOk(tools) ==
    /\ dstate = "connecting"
    /\ dtools' = tools
    /\ IF registered
         THEN /\ dstate' = "session"
              /\ txTools' = dbTools
              /\ txOther' = dother
              /\ UNCHANGED <<dresult>>
         ELSE /\ dstate' = "idle"
              /\ dresult' = DiscoveryResult(FALSE, 0, "Server not found in registry",
                                            "not_registered")
              /\ UNCHANGED <<txTools, txOther>>
    /\ UNCHANGED <<registered, dbTools, dk, dstatus, lastGood, dother, dread, dfound,
                   dlastError>>

\* "except Exception" of discover_server after get_async_session rolled the
\* session back
RewriteFails ==
    /\ dbTools' = Rollback(dbTools, txTools)
    /\ dother' = Rollback(dother, txOther)
    /\ txTools' = {}
    /\ txOther' = {}
    /\ dstatus' = StatusAfter("error")
    /\ dlastError' = LastErrorAfter("database error")
    /\ dresult' = DiscoveryResult(FALSE, 0, "database error", "rewrite")
    /\ dstate' = "idle"
    /\ UNCHANGED <<registered, dtools, dk, lastGood, dread, dfound>>

\* registry.delete_tools_for_server(server_uuid, session)
DeleteToolsForServer(ok) ==
    /\ dstate = "session"
    /\ IF ok
         THEN /\ txTools' = {}
              /\ txOther' = DeleteWhereServer(txOther, "other", "S")
              /\ dstate' = "registering"
              /\ UNCHANGED <<registered, dbTools, dtools, dk, dstatus, dresult,
                             lastGood, dother, dread, dfound, dlastError>>
         ELSE RewriteFails

\* one turn of "for tool in tools: registry.register_tool(..., session)"
RegisterTool(ok) ==
    /\ dstate = "registering"
    /\ dk <= Len(dtools)
    /\ IF ok
         THEN /\ txTools' = Upsert(txTools, dtools[dk])
              /\ txOther' = UpsertWhereServer(txOther, "other", "S", dtools[dk])
              /\ dk' = dk + 1
              /\ UNCHANGED <<registered, dbTools, dstate, dtools, dstatus, dresult,
                             lastGood, dother, dread, dfound, dlastError>>
         ELSE RewriteFails

\* leaving "async with get_async_session()": session.commit()
CommitSession(ok) ==
    /\ dstate = "registering"
    /\ dk > Len(dtools)
    /\ IF ok
         THEN /\ dbTools' = txTools
              /\ dother' = txOther
              /\ txTools' = {}
              /\ txOther' = {}
              /\ dstate' = "committed"
              /\ UNCHANGED <<registered, dtools, dk, dstatus, dresult, lastGood,
                             dread, dfound, dlastError>>
         ELSE RewriteFails

\* status becomes ACTIVE and discover_server returns success
DiscoverSucceeds ==
    /\ dstate = "committed"
    /\ dstatus' = StatusAfter("active")
    /\ dlastError' = LastErrorAfter("None")
    /\ dresult' = DiscoveryResult(TRUE, Len(dtools), "", "")
    /\ lastGood' = dbTools
    /\ dstate' = "idle"
    /\ UNCHANGED <<registered, dbTools, txTools, dtools, dk, dother, txOther, dread, dfound>>

\* list_tools(server_id=S), find_tool_by_intent or get_tool_with_server run
\* by another task
ReadCatalog(reader) ==
    /\ dstate # "off"
    /\ dread' = ReaderView(dbTools, txTools)
    /\ UNCHANGED <<registered, dbTools, txTools, dstate, dtools, dk, dstatus,
                   dresult, lastGood, dother, txOther, dlastError,
                   dfound>>

\* the rows "select(MCPTool).where(MCPTool.enabled == True)" returns: the
\* committed tools of every server
EnabledTools ==
    {[server |-> "S", tool |-> t] : t \in dbTools}
        \cup {[server |-> "other", tool |-> t] : t \in dother}

\* the orders in which the database may return a set of rows: the query has
\* no ORDER BY
RowOrders(rows) ==
    {order \in [1..Cardinality(rows) -> rows] :
        \A i, j \in 1..Cardinality(rows) : order[i] = order[j] => i = j}

Intents == {"read_file", "file_write", "delete_file"}

\* DiscoveryService._generate_intent_patterns
Patterns(name) ==
    CASE name = "read_file" -> {"read_file", "read-file", "readfile", "file_read"}
      [] name = "write_file" -> {"write_file", "write-file", "writefile", "file_write"}
      [] OTHER -> {name}

Qualifies(intent, row) ==
    intent \in Patterns(row.tool.name) \/ intent = row.tool.name

\* str.replace("_", "-")
Hyphenated(name) ==
    CASE name = "read_file" -> "read-file"
      [] name = "write_file" -> "write-file"
      [] name = "file_write" -> "file-write"
      [] name = "delete_file" -> "delete-file"
      [] OTHER -> name

NameAlike(intent, row) == Hyphenated(intent) = Hyphenated(row.tool.name)

NoTool == [server |-> "none"]

\* first row of the order a predicate holds for
FirstRow(tools, P(_)) ==
    tools[CHOOSE i \in 1..Len(tools) :
            P(tools[i]) /\ \A j \in 1..(i - 1) : ~P(tools[j])]

\* the two loops of _find: first row, in the order returned, whose patterns
\* hold the intent or whose name is the intent; else the first whose name
\* equals the intent up to "_" and "-"
FirstQualifying(intent, tools) ==
    LET ByPattern(row) == Qualifies(intent, row)
        ByName(row) == NameAlike(intent, row)
    IN  IF \E i \in 1..Len(tools) : ByPattern(tools[i])
          THEN FirstRow(tools, ByPattern)
        ELSE IF \E i \in 1..Len(tools) : ByName(tools[i])
          THEN FirstRow(tools, ByName)
        ELSE NoTool

\* ToolRegistry.find_tool_by_intent as stage 4 of the pipeline calls it
FindToolByIntent(intent) ==
    /\ dstate # "off"
    /\ \E tools \in RowOrders(EnabledTools) :
          dfound' = <<[intent |-> intent, rows |-> EnabledTools,
                       selected |-> FirstQualifying(intent, tools)]>>
                    \o SubSeq(dfound, 1, IF Len(dfound) > 0 THEN 1 ELSE 0)
    /\ UNCHANGED <<registered, dbTools, txTools, dstate, dtools, dk, dstatus,
                   dresult, lastGood, dother, txOther, dread, dlastError>>

DiscoveryOff ==
    /\ registered = FALSE
    /\ dbTools = {}
    /\ txTools = {}
    /\ dstate = "off"
    /\ dtools = <<>>
    /\ dk = 1
    /\ dstatus = "none"
    /\ dresult = NoDiscovery
    /\ lastGood = {}
    /\ dother = {}
    /\ txOther = {}
    /\ dread = NotRead
    /\ dlastError = "None"
    /\ dfound = <<>>

\* Another server whose catalog holds a tool of the same name as one of S.
OtherCatalog == {[name |-> "read_file", version |-> 1]}

\* DiscoveryService after register_servers: S is registered (or its
\* registration failed and was only logged) and has no tools yet.
DiscoveryInit ==
    /\ registered \in BOOLEAN
    /\ dbTools = {}
    /\ txTools = {}
    /\ dstate = "idle"
    /\ dtools = <<>>
    /\ dk = 1
    /\ dstatus = IF registered THEN "inactive" ELSE "none"
    /\ dresult = NoDiscovery
    /\ lastGood = {}
    /\ dother = OtherCatalog
    /\ txOther = {}
    /\ dread = NotRead
    /\ dlastError = "None"
    /\ dfound = <<>>

-----------------------------------------------------------------------------
(* nlp/entity_extractor.py *)

ExtractedEntity(label, text) == [label |-> label, text |-> text]

EntityExtractionResult(entities, tokens, noun_chunks, normalized_text) ==
    [entities |-> entities, tokens |-> tokens, noun_chunks |-> noun_chunks,
     normalized_text |-> normalized_text]

\* what extract finds in a text that is not blank
Extracted ==
    { EntityExtractionResult(<<>>, <<"show">>, "", "show"),
      EntityExtractionResult(<<ExtractedEntity("FILE_PATH", "abc")>>,
                             <<"show", "abc">>, "abc", "show abc") }

NoEntities == EntityExtractionResult(<<>>, <<>>, "none", "none")

\* EntityExtractor.extract; found is what spaCy and the patterns find
extract(text, found) ==
    IF IsBlank(text) THEN EntityExtractionResult(<<>>, <<>>, "", "") ELSE found

-----------------------------------------------------------------------------
(* pipeline/orchestrator.py *)

\* PipelineStage, in the order of the enum
PipelineStages ==
    << "entity_extraction", "intent_classification", "rule_evaluation",
       "tool_selection", "parameter_building", "schema_validation",
       "tool_execution", "response_formatting" >>

\* Texts sent through the pipeline: one a default override matches, one left
\* to the classifier, one blank.
PipelineTexts == { <<"show", "files">>, <<"files">>, <<"_">>, <<>> }

NoInput == [text |-> <<>>, user_role |-> "none"]

StageResult(stage, success, error) ==
    [stage |-> stage, success |-> success, error |-> error]

\* A JSON value a tool result carries: a string is the sequence of its
\* lines, a number its digits; a content block keeps its "type" and "text".
Text(t, lines) == [t |-> t, lines |-> lines]

NoText == Text("absent", <<>>)

Block(k, type, text) == [k |-> k, type |-> type, text |-> text]

Content(k, lines, items) == [k |-> k, lines |-> lines, items |-> items]

NoContent == Content("none", <<>>, <<>>)

\* the "content" of the result object of a tools/call response
ServerContents ==
    { Content("list", <<>>, <<>>),
      Content("str", <<"plain">>, <<>>),
      Content("list", <<>>, <<Block("dict", "text", Text("str", <<"hi", "there">>))>>),
      Content("list", <<>>, <<Block("dict", "text", Text("num", <<"5">>))>>),
      Content("list", <<>>, <<Block("dict", "image", NoText),
                              Block("dict", "text", Text("str", <<"hi">>))>>),
      Content("list", <<>>, <<Block("dict", "image", NoText),
                              Block("dict", "text", Text("num", <<"5">>))>>),
      Content("list", <<>>, <<Block("dict", "text", NoText),
                              Block("num", "none", Text("num", <<"7">>))>>),
      Content("list", <<>>, <<Block("dict", "resource", NoText)>>) }

\* MCPClient.call_tool, "Extract text content if available": the content of
\* the ToolCallResult
ExtractText(content) ==
    IF content.k = "list" /\ Len(content.items) > 0
         /\ content.items[1].k = "dict" /\ content.items[1].type = "text"
         /\ content.items[1].text # NoText
      THEN Content(content.items[1].text.t, content.items[1].text.lines, <<>>)
      ELSE content

\* the part stage 8 appends for one item of a content list
FormattedPart(item) ==
    IF item.k = "dict"
      THEN CASE item.type = "text" ->
                  IF item.text = NoText THEN Text("str", <<"">>) ELSE item.text
             [] item.type = "image" -> Text("str", <<"[Image content]">>)
             [] OTHER -> Text("str", <<"{'type': ...}">>)
      ELSE Text("str", item.text.lines)

\* "\n".join raises TypeError on a part that is no string
FormatRaises(content) ==
    /\ content.k = "list"
    /\ \E i \in 1..Len(content.items) : FormattedPart(content.items[i]).t # "str"

RECURSIVE JoinLines(_)
JoinLines(items) ==
    IF items = <<>> THEN <<>>
    ELSE FormattedPart(Head(items)).lines \o JoinLines(Tail(items))

\* the output of the StageResult of _execute_response_formatting
FormattedOutput(content) ==
    IF content.k # "list" \/ FormatRaises(content) THEN content
    ELSE IF content.items = <<>> THEN Content("str", <<"">>, <<>>)
    ELSE Content("str", JoinLines(content.items), <<>>)

FailsWhenRaised(content) == ~FormatRaises(content)

\* the success of the StageResult of _execute_response_formatting: True in
\* the try branch and in the except branch
FormattingSuccess(content) == TRUE

\* failed_stage_result = None
NoStage == [stage |-> "None", success |-> TRUE, error |-> "None"]

\* PipelineResult(success=False, status=PENDING, stage_results=[])
NewResult ==
    [success |-> FALSE, status |-> "pending", stage_results |-> <<>>,
     failed_stage |-> "None", error |-> "None", intent |-> NoIntent,
     rule_result |-> NoResult, tool_name |-> "None", tool_content |-> NoContent,
     result |-> NoContent, entities |-> NoEntities]

PrependStage(res, sr) == [res EXCEPT !.stage_results = <<sr>> \o @]

\* result.stage_results.append(stage_result)
AppendStage(res, sr) == [res EXCEPT !.stage_results = Append(@, sr)]

FinalizeWithoutStage(res, failed) == res

\* Pipeline._finalize_result
finalize_result(res, failed) ==
    IF failed # NoStage
      THEN [res EXCEPT !.failed_stage = failed.stage,
                       !.error = failed.error,
                       !.status = IF @ = "pending" THEN "failed" ELSE @]
      ELSE res

NeverDenied(rr) == FALSE

\* "if result.rule_result.decision == RuleDecision.DENY"
IsDenied(rr) == rr.decision = "DENY"

\* "result.rule_result.reason or 'Denied by rule engine'"
DenyError(rr) == IF rr.reason # "" THEN rr.reason ELSE "Denied by rule engine"

RuleContextDestructive(input, intent) ==
    [role |-> input.user_role, confidence |-> intent.confidence,
     is_forced |-> intent.is_forced, is_destructive |-> TRUE,
     requires_confirmation |-> FALSE, request_count |-> 0]

\* The RuleContext _execute_rule_evaluation builds: the tool, execution and
\* session fields keep their defaults.
RuleContextOf(input, intent) ==
    [role |-> input.user_role, confidence |-> intent.confidence,
     is_forced |-> intent.is_forced, is_destructive |-> FALSE,
     requires_confirmation |-> FALSE, request_count |-> 0]

\* "if not stage_result.success: return self._finalize_result(...)"
StageFails(sr) ==
    /\ presult' = finalize_result(AppendStage(presult, sr), sr)
    /\ ppc' = "returned"
    /\ UNCHANGED pnext

\* the stage succeeded; res holds its entry and its output
StagePasses(res) ==
    /\ presult' = res
    /\ pnext' = pnext + 1
    /\ UNCHANGED ppc

\* Pipeline.execute is called
Execute(text, role) ==
    /\ ppc = "idle"
    /\ ppc' = "running"
    /\ pnext' = 1
    /\ pinput' = [text |-> text, user_role |-> role]
    /\ presult' = NewResult
    /\ pcalls' = {}

\* Stage 1
EntityExtraction(raises, found) ==
    /\ ppc = "running" /\ pnext = 1
    /\ raises => ~IsBlank(pinput.text)
    /\ pcalls' = pcalls \cup {"extract"}
    /\ IF raises
         THEN StageFails(StageResult(PipelineStages[1], FALSE, "extract raised"))
         ELSE StagePasses(
                [AppendStage(presult, StageResult(PipelineStages[1], TRUE, "None"))
                   EXCEPT !.entities = extract(pinput.text, found)])
    /\ UNCHANGED pinput

\* Stage 2
IntentClassification(pred, raises) ==
    /\ ppc = "running" /\ pnext = 2
    /\ raises => ~IsBlank(pinput.text)
    /\ pcalls' = pcalls \cup {"classify"}
    /\ IF raises
         THEN StageFails(StageResult(PipelineStages[2], FALSE, "classify raised"))
         ELSE StagePasses(
                [AppendStage(presult, StageResult(PipelineStages[2], TRUE, "None"))
                   EXCEPT !.intent = classify(pinput.text, overrides, trained, pred)])
    /\ UNCHANGED pinput

\* Stage 3 and the check of the decision that follows it
RuleEvaluation(raises) ==
    /\ ppc = "running" /\ pnext = 3
    /\ pcalls' = pcalls \cup {"evaluate"}
    /\ IF raises
         THEN StageFails(StageResult(PipelineStages[3], FALSE, "evaluate raised"))
         ELSE LET rr == evaluate(rules, RuleContextOf(pinput, presult.intent))
                  res == [AppendStage(presult, StageResult(PipelineStages[3], TRUE, "None"))
                            EXCEPT !.rule_result = rr]
              IN  IF IsDenied(rr)
                    THEN /\ presult' = finalize_result(
                                [res EXCEPT !.status = "denied", !.error = DenyError(rr)],
                                NoStage)
                         /\ ppc' = "returned"
                         /\ UNCHANGED pnext
                    ELSE StagePasses(res)
    /\ UNCHANGED pinput

\* Stage 4
ToolSelection(outcome) ==
    /\ ppc = "running" /\ pnext = 4
    /\ pcalls' = pcalls \cup {"find_tool_by_intent"}
    /\ CASE outcome = "found" ->
              StagePasses([AppendStage(presult, StageResult(PipelineStages[4], TRUE, "None"))
                             EXCEPT !.tool_name = presult.intent.intent])
         [] outcome = "none" ->
              StageFails(StageResult(PipelineStages[4], FALSE, "No tool found for intent"))
         [] OTHER ->
              StageFails(StageResult(PipelineStages[4], FALSE, "find_tool_by_intent raised"))
    /\ UNCHANGED pinput

\* Stage 5
ParameterBuilding(outcome) ==
    /\ ppc = "running" /\ pnext = 5
    /\ pcalls' = pcalls \cup {"build_parameters"}
    /\ CASE outcome = "built" ->
              StagePasses(AppendStage(presult, StageResult(PipelineStages[5], TRUE, "None")))
         [] outcome = "missing" ->
              StageFails(StageResult(PipelineStages[5], FALSE, "Parameter building failed"))
         [] OTHER ->
              StageFails(StageResult(PipelineStages[5], FALSE, "build_parameters raised"))
    /\ UNCHANGED pinput

\* Stage 6
SchemaValidation(outcome) ==
    /\ ppc = "running" /\ pnext = 6
    /\ pcalls' = pcalls \cup {"validate_parameters"}
    /\ CASE outcome = "valid" ->
              StagePasses(AppendStage(presult, StageResult(PipelineStages[6], TRUE, "None")))
         [] outcome = "invalid" ->
              StageFails(StageResult(PipelineStages[6], FALSE, "Validation failed"))
         [] OTHER ->
              StageFails(StageResult(PipelineStages[6], FALSE, "validate_parameters raised"))
    /\ UNCHANGED pinput

StaysRunning(success) == "running"

\* "result.status = RUNNING; if not stage_result.success: result.status =
\* FAILED"
StatusAfterStage7(success) == IF success THEN "running" ELSE "failed"

\* Stage 7; connected tells whether the server is in list_connections()
ToolExecution(outcome, connected, content) ==
    /\ ppc = "running" /\ pnext = 7
    /\ outcome = "connect_failed" => ~connected
    /\ outcome # "called" => content = NoContent
    /\ outcome = "called" => content \in ServerContents
    /\ pcalls' = pcalls \cup {"get_tool_with_server"}
                   \cup (IF outcome # "not_found" /\ ~connected
                           THEN {"connect_server"} ELSE {})
                   \cup (IF outcome \in {"called", "call_failed", "call_raised"}
                           THEN {"call_tool"} ELSE {})
    /\ IF outcome = "called"
         THEN StagePasses([AppendStage(presult, StageResult(PipelineStages[7], TRUE, "None"))
                             EXCEPT !.status = StatusAfterStage7(TRUE),
                                    !.tool_content = ExtractText(content)])
         ELSE /\ presult' = finalize_result(
                     [AppendStage(presult, StageResult(PipelineStages[7], FALSE, outcome))
                        EXCEPT !.status = StatusAfterStage7(FALSE)],
                     StageResult(PipelineStages[7], FALSE, outcome))
              /\ ppc' = "returned"
              /\ UNCHANGED pnext
    /\ UNCHANGED pinput

\* Stage 8 never fails; then "Success!"
ResponseFormatting ==
    /\ ppc = "running" /\ pnext = 8
    /\ presult' = finalize_result(
            [AppendStage(presult,
                         StageResult(PipelineStages[8],
                                     FormattingSuccess(presult.tool_content), "None"))
               EXCEPT !.result = FormattedOutput(presult.tool_content),
                      !.success = TRUE, !.status = "success"],
            NoStage)
    /\ ppc' = "returned"
    /\ UNCHANGED <<pnext, pinput, pcalls>>

\* the caller has the PipelineResult
ExecuteReturn ==
    /\ ppc = "returned"
    /\ ppc' = "idle"
    /\ pnext' = 0
    /\ pinput' = NoInput
    /\ presult' = NewResult
    /\ pcalls' = {}

PipelineOff ==
    /\ ppc = "off"
    /\ pnext = 0
    /\ pinput = NoInput
    /\ presult = NewResult
    /\ pcalls = {}

PipelineInit ==
    /\ ppc = "idle"
    /\ pnext = 0
    /\ pinput = NoInput
    /\ presult = NewResult
    /\ pcalls = {}

-----------------------------------------------------------------------------
(* mcp/client.py and Pipeline._execute_tool *)

TransportTypes == {"stdio", "http", "websocket"}

\* What the server does with one request: answer with a result, answer with
\* a JSON-RPC error, not answer within the timeout, or break the connection.
ServerEvents == {"reply", "error_reply", "no_reply", "broken"}

NoConn == [is_initialized |-> "none"]
NoReturn == [kind |-> "none"]

MCPServerConnection(initialized, caps, tools) ==
    [is_initialized |-> initialized, capabilities_tools |-> caps, tools |-> tools]

Response(code) == [type |-> "response", is_error |-> code # 0, code |-> code]
Raised(exc) == [type |-> "raised", exc |-> exc]

\* transport.send_request as its caller sees it. StdioTransport and
\* WebSocketTransport raise when not connected, when the write fails and on
\* the timeout; HttpTransport turns every exception of the POST into an
\* error response of code -32603.
send_request(kind, alive, ev) ==
    IF kind = "http"
      THEN IF alive \in {"none", "closed"} THEN Raised("RuntimeError")
           ELSE CASE ev = "reply" -> Response(0)
                  [] ev = "error_reply" -> Response(-32601)
                  [] OTHER -> Response(-32603)
      ELSE IF alive # "up" THEN Raised("RuntimeError")
           ELSE CASE ev = "reply" -> Response(0)
                  [] ev = "error_reply" -> Response(-32601)
                  [] ev = "no_reply" -> Raised("TimeoutError")
                  [] OTHER -> Raised("ConnectionError")

\* The events a transport in that state can meet.
EventsOf(alive) ==
    IF alive = "dead" THEN {"no_reply", "broken"} ELSE ServerEvents

ToolCallResult(success, code, error, cause) ==
    [kind |-> "call_tool", success |-> success, error_code |-> code,
     error |-> error, cause |-> cause]

\* MCPClient.call_tool
call_tool(conn, kind, alive, ev) ==
    IF conn = NoConn
      THEN ToolCallResult(FALSE, -32000, "Server not connected", "no_connection")
    ELSE IF ~conn.is_initialized
      THEN ToolCallResult(FALSE, -32001, "Server not initialized", "not_initialized")
    ELSE LET r == send_request(kind, alive, ev)
             cause == IF alive \in {"none", "closed"} \/ (kind # "http" /\ alive # "up")
                        THEN "exception"
                      ELSE IF ev = "no_reply" THEN "timeout"
                      ELSE IF ev = "broken" THEN "exception"
                      ELSE IF ev = "error_reply" THEN "rpc_error"
                      ELSE "result"
         IN  IF r.type = "raised"
               THEN IF r.exc = "TimeoutError"
                      THEN ToolCallResult(FALSE, -32002, "Request timed out", cause)
                      ELSE ToolCallResult(FALSE, -32603, r.exc, cause)
             ELSE IF r.is_error
               THEN ToolCallResult(FALSE, r.code, "server error message", cause)
             ELSE ToolCallResult(TRUE, 0, "None", cause)

ConnectReturn(ok) == [kind |-> "connect_server", ok |-> ok]

\* connect_server: under the client lock, drop a connection already stored
\* for S, then create the transport
ConnectBegin ==
    /\ cpc = "idle"
    /\ xpc \in {"idle", "reconnect"}
    /\ cpc' = "transport"
    /\ cconn' = NoConn
    /\ calive' = IF cconn # NoConn THEN "closed" ELSE calive
    /\ cnew' = NoConn
    /\ cdone' = IF cconn # NoConn THEN {"replace"} ELSE {}
    /\ cret' = NoReturn
    /\ UNCHANGED <<ckind, xpc, xlog, xres, cobs>>

\* "if not await transport.connect(): return False"
TransportConnect(ok) ==
    /\ cpc = "transport"
    /\ IF ok
         THEN /\ calive' = "up"
              /\ cnew' = MCPServerConnection(FALSE, FALSE, "none")
              /\ cdone' = cdone \cup {"connect"}
              /\ cpc' = "initialize"
              /\ UNCHANGED cret
         ELSE /\ calive' = "none"
              /\ cpc' = "idle"
              /\ cret' = ConnectReturn(FALSE)
              /\ UNCHANGED <<cnew, cdone>>
    /\ UNCHANGED <<ckind, cconn, xpc, xlog, xres, cobs>>

\* "if not await self._initialize_server(connection): await
\* transport.disconnect(); return False"
LeftOpen(alive) == alive

\* "await transport.disconnect()" after a failed handshake
DisconnectNew(alive) == "closed"

InitializeFails(done) ==
    /\ calive' = DisconnectNew(calive)
    /\ cpc' = "idle"
    /\ cret' = ConnectReturn(FALSE)
    /\ cdone' = done
    /\ UNCHANGED <<ckind, cconn, cnew, xpc, xlog, xres, cobs>>

\* "self._connections[server_id] = connection; return True"
StoreConnection(conn, done) ==
    /\ cconn' = conn
    /\ cnew' = conn
    /\ cdone' = done
    /\ cpc' = "idle"
    /\ cret' = ConnectReturn(TRUE)
    /\ UNCHANGED <<ckind, calive, xpc, xlog, xres, cobs>>

\* _initialize_server: the initialize request
Initialize(ev, caps) ==
    /\ cpc = "initialize"
    /\ ev \in EventsOf(calive)
    /\ LET r == send_request(ckind, calive, ev)
       IN  IF r.type = "raised" \/ r.is_error
             THEN InitializeFails(cdone)
             ELSE /\ cnew' = [cnew EXCEPT !.capabilities_tools = caps]
                  /\ cdone' = cdone \cup {"initialize"}
                  /\ cpc' = "notify"
                  /\ UNCHANGED <<ckind, cconn, calive, cret, xpc, xlog, xres, cobs>>

LeaveUninitialized(conn) == conn

\* "connection.is_initialized = True"
MarkInitialized(conn) == [conn EXCEPT !.is_initialized = TRUE]

\* _initialize_server: the initialized notification, sent with send_request;
\* its response is not looked at
NotifyInitialized(ev) ==
    /\ cpc = "notify"
    /\ ev \in EventsOf(calive)
    /\ LET r == send_request(ckind, calive, ev)
           conn == MarkInitialized(cnew)
           \* the server was reached and, as for a notification, sent nothing
           silent == IF ev = "no_reply" /\ calive = "up" THEN {"unanswered"} ELSE {}
       IN  IF r.type = "raised"
             THEN InitializeFails(cdone \cup silent)
           ELSE IF conn.capabilities_tools
             THEN /\ cnew' = conn
                  /\ cdone' = cdone \cup {"notify"} \cup silent
                  /\ cpc' = "discover"
                  /\ UNCHANGED <<ckind, cconn, calive, cret, xpc, xlog, xres, cobs>>
           ELSE StoreConnection(conn, cdone \cup {"notify"} \cup silent)

\* _discover_tools logs a failure and returns; _initialize_server then
\* returns True
DiscoverTools(ev) ==
    /\ cpc = "discover"
    /\ ev \in EventsOf(calive)
    /\ LET r == send_request(ckind, calive, ev)
       IN  IF r.type = "raised" \/ r.is_error
             THEN StoreConnection(cnew, cdone)
             ELSE StoreConnection([cnew EXCEPT !.tools = "cached"],
                                  cdone \cup {"tools"})

\* the server process exits or the socket closes
TransportDies ==
    /\ calive = "up"
    /\ calive' = "dead"
    /\ UNCHANGED <<ckind, cconn, cpc, cnew, cdone, cret, xpc, xlog, xres, cobs>>

\* MCPClient.disconnect_server
DisconnectServer ==
    /\ cpc = "idle" /\ xpc = "idle"
    /\ cconn # NoConn
    /\ cconn' = NoConn
    /\ calive' = "closed"
    /\ cret' = NoReturn
    /\ UNCHANGED <<ckind, cpc, cnew, cdone, xpc, xlog, xres, cobs>>

\* A call of MCPClient.call_tool
CallTool(ev) ==
    /\ cpc = "idle" /\ xpc = "idle"
    /\ ev \in EventsOf(calive)
    /\ cret' = call_tool(cconn, ckind, calive, ev)
    /\ UNCHANGED <<ckind, cconn, calive, cpc, cnew, cdone, xpc, xlog, xres, cobs>>

NoObs == [reader |-> "none"]

\* call_tool, ping_server or list_connections run by another task while
\* connect_server is suspended at one of its awaits: none of them takes the
\* client lock, each reads self._connections as it is
Observe(reader) ==
    /\ cpc # "idle"
    /\ cobs' = [reader |-> reader, replacing |-> "replace" \in cdone,
                found |-> cconn # NoConn]
    /\ UNCHANGED <<ckind, cconn, calive, cpc, cnew, cdone, cret, xpc, xlog, xres>>

NoLog == [down |-> FALSE, connect_attempted |-> FALSE, connect_ok |-> FALSE,
          called |-> FALSE]

\* _execute_tool up to the connection test: get_tool_with_server, then
\* "if server_info.server_id not in self.mcp_client.list_connections()"
ToolStageBegin(found) ==
    /\ xpc = "idle" /\ cpc = "idle"
    /\ xlog' = [NoLog EXCEPT !.down = (cconn = NoConn \/ calive # "up")]
    /\ IF ~found
         THEN /\ xpc' = "returned"
              /\ xres' = StageResult("tool_execution", FALSE, "Tool or server not found")
         ELSE /\ xpc' = IF cconn = NoConn THEN "reconnect" ELSE "call"
              /\ xres' = NoStage
    /\ cret' = NoReturn
    /\ UNCHANGED <<ckind, cconn, calive, cpc, cnew, cdone, cobs>>

\* "connected = await self.mcp_client.connect_server(...)" has returned
ToolStageConnected ==
    /\ xpc = "reconnect"
    /\ cpc = "idle"
    /\ cret # NoReturn /\ cret.kind = "connect_server"
    /\ xlog' = [xlog EXCEPT !.connect_attempted = TRUE, !.connect_ok = cret.ok]
    /\ IF cret.ok
         THEN xpc' = "call" /\ UNCHANGED xres
         ELSE /\ xpc' = "returned"
              /\ xres' = StageResult("tool_execution", FALSE, "Could not connect to server")
    /\ UNCHANGED <<ckind, cconn, calive, cpc, cnew, cdone, cret, cobs>>

\* "result = await self.mcp_client.call_tool(...)" and the StageResult made
\* of it
ToolStageCall(ev) ==
    /\ xpc = "call"
    /\ ev \in EventsOf(calive)
    /\ LET r == call_tool(cconn, ckind, calive, ev)
       IN  /\ cret' = r
           /\ xres' = IF r.success
                        THEN StageResult("tool_execution", TRUE, "None")
                        ELSE StageResult("tool_execution", FALSE, r.error)
    /\ xlog' = [xlog EXCEPT !.called = TRUE]
    /\ xpc' = "returned"
    /\ UNCHANGED <<ckind, cconn, calive, cpc, cnew, cdone, cobs>>

\* the pipeline goes on with the StageResult
ToolStageReturn ==
    /\ xpc = "returned"
    /\ xpc' = "idle"
    /\ cret' = NoReturn
    /\ UNCHANGED <<ckind, cconn, calive, cpc, cnew, cdone, xlog, xres, cobs>>

ClientOff ==
    /\ ckind = "none"
    /\ cconn = NoConn
    /\ calive = "none"
    /\ cpc = "off"
    /\ cnew = NoConn
    /\ cdone = {}
    /\ cret = NoReturn
    /\ xpc = "off"
    /\ xlog = NoLog
    /\ xres = NoStage
    /\ cobs = NoObs

\* MCPClient.__init__: no connection; S is configured with one transport
ClientInit ==
    /\ ckind \in TransportTypes
    /\ cconn = NoConn
    /\ calive = "none"
    /\ cpc = "idle"
    /\ cnew = NoConn
    /\ cdone = {}
    /\ cret = NoReturn
    /\ xpc = "idle"
    /\ xlog = NoLog
    /\ xres = NoStage
    /\ cobs = NoObs

-----------------------------------------------------------------------------
(* Parameter building and schema validation: src/executor/schema_executor.py,
   stages 5 and 6 of the pipeline *)

\* the properties of an input schema, in the order of its "properties" dict
ParamOrder == <<"path", "count", "url", "query">>

ParamNames == {ParamOrder[k] : k \in 1..Len(ParamOrder)}

NoValue == [t |-> "absent", v |-> ""]

Str(text) == [t |-> "string", v |-> text]

Integer(text) == [t |-> "integer", v |-> text]

\* a property of an input schema: its JSON type, its "default", if any, and
\* its "format"
ParamDef(type, default, format) ==
    [type |-> type, default |-> default, format |-> format]

\* definitions a tool schema gives a property of that name; a schema may
\* carry a default that is not of the declared type
ParamDefs(name) ==
    CASE name = "path" -> {ParamDef("string", NoValue, "none")}
      [] name = "count" ->
            {ParamDef("integer", NoValue, "none"), ParamDef("integer", Integer("5"), "none"),
             ParamDef("integer", Str("many"), "none")}
      [] name = "url" -> {ParamDef("string", NoValue, "uri")}
      [] OTHER -> {ParamDef("string", NoValue, "none"), ParamDef("string", Str("all"), "none")}

NoDef == ParamDef("none", NoValue, "none")

\* input schemas: "properties" (NoDef: no such property), "required", and
\* whether Draft7Validator.check_schema accepts the schema
Schemas ==
    {[properties |-> props, required |-> req, wellformed |-> wf] :
        props \in {f \in [ParamNames -> {NoDef} \cup UNION {ParamDefs(n) : n \in ParamNames}] :
                      \A n \in ParamNames : f[n] = NoDef \/ f[n] \in ParamDefs(n)},
        req \in {{}, {"path", "count"}, {"url", "query"}, {"mode"}},
        wf \in BOOLEAN}

\* what stage 1 hands over for a few input texts
Extractions ==
    { EntityExtractionResult(<<>>, <<>>, "", ""),
      EntityExtractionResult(<<ExtractedEntity("CARDINAL", "12")>>, <<"go", "to">>,
                             "", "go to 12"),
      EntityExtractionResult(<<ExtractedEntity("FILE_PATH", "abc")>>,
                             <<"open", "abc">>, "abc", "open abc"),
      EntityExtractionResult(<<ExtractedEntity("CARDINAL", "12"),
                               ExtractedEntity("FILE_PATH", "abc")>>,
                             <<"open", "site">>, "", ""),
      EntityExtractionResult(<<ExtractedEntity("FILE_PATH", "abc"),
                               ExtractedEntity("FILE_PATH", "abc")>>,
                             <<>>, "abc abc", "abc abc") }

\* values of the request's overrides and of its context (the defaults)
OverrideMaps ==
    {[n \in ParamNames |-> NoValue],
     [n \in ParamNames |-> IF n = "count" THEN Str("abc") ELSE NoValue],
     [n \in ParamNames |-> IF n = "count" THEN Integer("3") ELSE NoValue],
     [n \in ParamNames |-> IF n = "path" THEN Integer("7") ELSE NoValue]}

DefaultMaps ==
    {[n \in ParamNames |-> NoValue],
     [n \in ParamNames |-> IF n = "path" THEN Str("/tmp") ELSE NoValue],
     [n \in ParamNames |-> IF n \in {"count", "query"} THEN Str("x") ELSE NoValue]}

\* SchemaAnalyzer.suggest_entity_labels: PARAM_PATTERNS by the name, then
\* TYPE_TO_ENTITY_MAP by the type
suggest_entity_labels(name, def) ==
    (CASE name = "path" -> {"FILE_PATH"}
       [] name = "count" -> {"CARDINAL"}
       [] name = "url" -> {"URL"}
       [] OTHER -> {})
    \cup (CASE def.type = "string" ->
                 {"FILE_PATH", "URL", "EMAIL", "PERSON", "ORG", "GPE", "COMMAND"}
            [] def.type = "integer" -> {"CARDINAL", "QUANTITY"}
            [] OTHER -> {})

\* float(text) / int(float(cleaned)) accepts the text
Numeric(text) == text = "12"

\* EntityMatcher.match_entity_to_param: the confidence in tenths, 0 for no
\* match
match_entity_to_param(entity, name, def) ==
    IF entity.label \in suggest_entity_labels(name, def) THEN 9
    ELSE IF def.type = "string" THEN 5
    ELSE IF def.type = "integer" /\ Numeric(entity.text) THEN 8
    ELSE 0

\* EntityMatcher.find_best_entity: the index of the unused entity of highest
\* confidence, the first of equals (0: none)
find_best_entity(entities, name, def, used) ==
    LET free == {i \in 1..Len(entities) :
                    i \notin used /\ match_entity_to_param(entities[i], name, def) > 0}
    IN  IF free = {} THEN 0
        ELSE CHOOSE i \in free : \A j \in free :
                LET ci == match_entity_to_param(entities[i], name, def)
                    cj == match_entity_to_param(entities[j], name, def)
                IN  ci > cj \/ (ci = cj /\ i <= j)

ForgetUsed(used, idx) == used

\* "used_entities.add(best_idx)"
MarkUsed(used, idx) == IF idx = 0 THEN used ELSE used \cup {idx}

\* ValueConverter._normalize_url
NormalizeUrl(text) ==
    CASE text = "abc" -> "https://abc.com"
      [] text = "12" -> "https://12.com"
      [] text = "site" -> "https://site.com"
      [] OTHER -> text

ConvertRaises(text, def) == def.type = "integer" /\ ~Numeric(text)

\* ValueConverter.convert
convert(text, def) ==
    IF def.type = "integer" THEN Integer(text)
    ELSE IF def.format = "uri" THEN Str(NormalizeUrl(text))
    ELSE Str(text)

\* "param_name == 'url' or param_format == 'uri' or 'url' in param_desc"
UrlFlagged(name, def) == name = "url" \/ def.format = "uri"

SkippedToken(token) == token \in {"open", "go", "to"}

\* the first token that is no action verb and has three characters or more
\* ("": none)
UrlToken(tokens) ==
    IF \E k \in 1..Len(tokens) : ~SkippedToken(tokens[k])
      THEN tokens[CHOOSE k \in 1..Len(tokens) :
                     /\ ~SkippedToken(tokens[k])
                     /\ \A j \in 1..(k - 1) : SkippedToken(tokens[j])]
      ELSE ""

FreeTextNames == {"query", "content", "text", "message", "description"}

Source(tag, value) == [tag |-> tag, value |-> value]

\* what each source of the loop body yields for a property, in the order
\* the body tries them (NoValue: the source yields nothing)
Sources(name, def, best, extraction, defaults, param_overrides) ==
    << Source("override", param_overrides[name]),
       Source("entity",
              IF best # 0 /\ ~ConvertRaises(extraction.entities[best].text, def)
                THEN convert(extraction.entities[best].text, def) ELSE NoValue),
       Source("token_url",
              IF UrlFlagged(name, def) /\ UrlToken(extraction.tokens) # ""
                THEN Str(NormalizeUrl(UrlToken(extraction.tokens))) ELSE NoValue),
       Source("noun_chunks",
              IF name \in FreeTextNames /\ extraction.noun_chunks # ""
                THEN Str(extraction.noun_chunks) ELSE NoValue),
       Source("full_text",
              IF name \in FreeTextNames /\ extraction.normalized_text # ""
                THEN Str(extraction.normalized_text) ELSE NoValue),
       Source("default", defaults[name]),
       Source("schema_default", def.default),
       Source("none", NoValue) >>

LastYield(sources) ==
    IF \E k \in 1..Len(sources) : sources[k].value # NoValue
      THEN sources[CHOOSE k \in 1..Len(sources) :
                      /\ sources[k].value # NoValue
                      /\ \A j \in (k + 1)..Len(sources) : sources[j].value = NoValue]
      ELSE sources[Len(sources)]

\* the "continue" chain of the loop body: the first source with a value
FirstYield(sources) ==
    IF \E k \in 1..Len(sources) : sources[k].value # NoValue
      THEN sources[CHOOSE k \in 1..Len(sources) :
                      /\ sources[k].value # NoValue
                      /\ \A j \in 1..(k - 1) : sources[j].value = NoValue]
      ELSE sources[Len(sources)]

\* The loop of build_parameters from property k on. acc carries parameters,
\* mapping_log, missing_required, used_entities and, for the claims, the
\* entity find_best_entity returned for each property (0: none or not asked).
RECURSIVE BuildLoop(_, _, _, _, _, _)
BuildLoop(k, schema, extraction, defaults, param_overrides, acc) ==
    IF k > Len(ParamOrder) THEN acc
    ELSE LET name == ParamOrder[k]
             def == schema.properties[name]
         IN  IF def = NoDef
               THEN BuildLoop(k + 1, schema, extraction, defaults, param_overrides, acc)
             ELSE LET asked == param_overrides[name] = NoValue
                      best == IF asked
                                THEN find_best_entity(extraction.entities, name, def,
                                                      acc.used)
                                ELSE 0
                      src == FirstYield(Sources(name, def, best, extraction, defaults,
                                                param_overrides))
                  IN  BuildLoop(k + 1, schema, extraction, defaults, param_overrides,
                        [parameters |-> [acc.parameters EXCEPT ![name] = src.value],
                         mapping_log |-> [acc.mapping_log EXCEPT ![name] = src.tag],
                         missing |-> IF src.tag = "none" /\ name \in schema.required
                                       THEN acc.missing \cup {name} ELSE acc.missing,
                         used |-> MarkUsed(acc.used, best),
                         entity_of |-> [acc.entity_of EXCEPT ![name] = best]])

\* SchemaValidator.validate: the error messages, as (name, kind) pairs
ValidationErrors(parameters, schema) ==
    IF ~schema.wellformed THEN {<<"schema", "invalid">>}
    ELSE {<<r, "required">> : r \in {r \in schema.required :
                                   r \notin ParamNames \/ parameters[r] = NoValue}}
         \cup {<<n, "type">> : n \in {n \in ParamNames :
                                   /\ parameters[n] # NoValue
                                   /\ schema.properties[n] # NoDef
                                   /\ parameters[n].t # schema.properties[n].type}}

\* SchemaExecutor.validate_parameters
validate_parameters(parameters, schema) ==
    [is_valid |-> ValidationErrors(parameters, schema) = {},
     errors |-> ValidationErrors(parameters, schema)]

IgnoreValidation(is_valid, missing_required) == missing_required = {}

\* "success = is_valid and not missing_required"
BuildSuccess(is_valid, missing_required) == is_valid /\ missing_required = {}

AlwaysValidate(missing_required) == TRUE

\* "if not missing_required: is_valid, validation_errors = validate(...)"
RunsValidator(missing_required) == missing_required = {}

ParameterBuildResult(success, parameters, missing, errors, log, validated, entity_of) ==
    [success |-> success, parameters |-> parameters, missing_required |-> missing,
     validation_errors |-> errors, mapping_log |-> log, validated |-> validated,
     entity_of |-> entity_of]

\* SchemaExecutor.build_parameters
build_parameters(schema, extraction, defaults, param_overrides) ==
    LET built == BuildLoop(1, schema, extraction, defaults, param_overrides,
                           [parameters |-> [n \in ParamNames |-> NoValue],
                            mapping_log |-> [n \in ParamNames |-> "none"],
                            missing |-> {}, used |-> {},
                            entity_of |-> [n \in ParamNames |-> 0]])
        validated == RunsValidator(built.missing)
        errors == IF validated THEN ValidationErrors(built.parameters, schema) ELSE {}
        is_valid == validated /\ errors = {}
    IN  ParameterBuildResult(BuildSuccess(is_valid, built.missing), built.parameters,
                             built.missing, errors, built.mapping_log, validated,
                             built.entity_of)

NoBuild == [success |-> "none"]

NoCheck == [is_valid |-> "none"]

\* Stage 5: Pipeline._execute_parameter_building
BuildParameters ==
    /\ bpc = "start"
    /\ bresult' = build_parameters(binput.schema, binput.entities, binput.defaults,
                                   binput.overrides)
    /\ bpc' = "built"
    /\ UNCHANGED <<binput, bcheck>>

\* Stage 6: Pipeline._execute_schema_validation, reached when stage 5 passed
ValidateParameters ==
    /\ bpc = "built"
    /\ bresult.success = TRUE
    /\ bcheck' = validate_parameters(bresult.parameters, binput.schema)
    /\ bpc' = "validated"
    /\ UNCHANGED <<binput, bresult>>

ParamsOff ==
    /\ binput = [schema |-> "none"]
    /\ bpc = "off"
    /\ bresult = NoBuild
    /\ bcheck = NoCheck

ParamsInit ==
    /\ binput \in [schema : Schemas, entities : Extractions,
                   defaults : DefaultMaps, overrides : OverrideMaps]
    /\ bpc = "start"
    /\ bresult = NoBuild
    /\ bcheck = NoCheck

-----------------------------------------------------------------------------
(* discovery/service.py: discover_all *)

ServerIds == 1..MaxServers

\* one DiscoveryResult of the list, with the server it is for
ServerResult(server_id, success, error) ==
    [server_id |-> server_id, success |-> success, error |-> error]

\* discover_all is called; the configs are loaded
DiscoverAll ==
    /\ apc = "idle"
    /\ apc' = "register"
    /\ ak' = 1
    /\ UNCHANGED <<acfg, astage, areg, aresults>>

\* register_servers, one config: an exception of register_server (or of
\* TransportType(config.transport)) is logged and the loop goes on
RegisterServer(ok) ==
    /\ apc = "register"
    /\ areg' = IF ok THEN areg \cup {ak} ELSE areg
    /\ IF ak = MaxServers
         THEN apc' = "discover" /\ ak' = 1
         ELSE apc' = apc /\ ak' = ak + 1
    /\ UNCHANGED <<acfg, astage, aresults>>

\* "if config.enabled": a disabled config is passed over
SkipDisabled ==
    /\ apc = "discover" /\ ak <= MaxServers /\ astage = "none"
    /\ ~acfg[ak].enabled
    /\ ak' = ak + 1
    /\ UNCHANGED <<acfg, apc, astage, areg, aresults>>

\* discover_server returns its DiscoveryResult, discover_all appends it
ServerDone(success, error) ==
    /\ aresults' = Append(aresults, ServerResult(ak, success, error))
    /\ astage' = "none"
    /\ ak' = ak + 1
    /\ apc' = apc

\* an exception leaves discover_server, and with it discover_all
ServerRaises ==
    /\ apc' = "raised"
    /\ astage' = "none"
    /\ UNCHANGED <<ak, aresults>>

\* discover_server, before its try: update_server_status(DISCOVERING)
StatusDiscovering(raises) ==
    /\ apc = "discover" /\ ak <= MaxServers /\ astage = "none"
    /\ acfg[ak].enabled
    /\ IF raises THEN ServerRaises
       ELSE astage' = "connect" /\ UNCHANGED <<apc, ak, aresults>>
    /\ UNCHANGED <<acfg, areg>>

\* in the try: TransportType(...) and mcp_client.connect_server
ConnectServer(outcome) ==
    /\ apc = "discover" /\ astage = "connect"
    /\ astage' = CASE outcome = "connected" -> "rewrite"
                   [] outcome = "refused" -> "refused"
                   [] OTHER -> "handler"
    /\ UNCHANGED <<acfg, apc, ak, areg, aresults>>

\* "if not connected": update_server_status(ERROR), in the try, then the
\* failure result
ConnectRefused(raises) ==
    /\ apc = "discover" /\ astage = "refused"
    /\ IF raises THEN astage' = "handler" /\ UNCHANGED <<apc, ak, aresults>>
       ELSE ServerDone(FALSE, "Failed to connect")
    /\ UNCHANGED <<acfg, areg>>

\* get_server, the delete and the register_tool calls in one session, then
\* update_server_status(ACTIVE)
RewriteCatalog(raises) ==
    /\ apc = "discover" /\ astage = "rewrite"
    /\ IF ak \notin areg THEN ServerDone(FALSE, "Server not found in registry")
       ELSE IF raises THEN astage' = "handler" /\ UNCHANGED <<apc, ak, aresults>>
       ELSE ServerDone(TRUE, "None")
    /\ UNCHANGED <<acfg, areg>>

\* "except Exception": update_server_status(ERROR), then the failure result
ExceptHandler(raises) ==
    /\ apc = "discover" /\ astage = "handler"
    /\ IF raises THEN ServerRaises ELSE ServerDone(FALSE, "str(e)")
    /\ UNCHANGED <<acfg, areg>>

\* the loop is over: "return results"
DiscoverAllReturn ==
    /\ apc = "discover" /\ ak > MaxServers /\ astage = "none"
    /\ apc' = "returned"
    /\ UNCHANGED <<acfg, ak, astage, areg, aresults>>

DiscoverAllOff ==
    /\ acfg = <<>>
    /\ apc = "off"
    /\ ak = 0
    /\ astage = "none"
    /\ areg = {}
    /\ aresults = <<>>

DiscoverAllInit ==
    /\ acfg \in [ServerIds -> [enabled : BOOLEAN]]
    /\ apc = "idle"
    /\ ak = 0
    /\ astage = "none"
    /\ areg = {}
    /\ aresults = <<>>

-----------------------------------------------------------------------------
(* registry/tool_registry.py: register_server and list_tools *)

RegistryTasks == {1, 2}

ServerNames == {"alpha", "beta"}

\* a row of mcp_servers: primary key, server_id (unique), name
ServerRow(id, server_id, name) == [id |-> id, server_id |-> server_id, name |-> name]

\* a row of mcp_tools: its server's primary key, tool_name, enabled
ToolRow(server, tool_name, enabled) ==
    [server |-> server, tool_name |-> tool_name, enabled |-> enabled]

NoRow == ServerRow(0, "none", "none")

NoPending == [kind |-> "none", row |-> NoRow]

\* what a task's last register_server returned: a primary key, 0 before any
\* call, or the exception of the unique index
IntegrityError == 0 - 1

IdleTask == [pc |-> "idle", server_id |-> "none", name |-> "none", existing |-> NoRow,
             pending |-> NoPending, ret |-> 0]

\* "select(MCPServer).where(MCPServer.server_id == server_id)" and
\* scalar_one_or_none, on the committed rows
ServerWithId(rows, server_id) ==
    IF \E r \in rows : r.server_id = server_id
      THEN CHOOSE r \in rows : r.server_id = server_id
      ELSE NoRow

ReplaceRow(row, name, fresh) == ServerRow(fresh, row.server_id, name)

\* "existing_server.name = name ...": the columns the update writes
UpdateInPlace(row, name, fresh) == ServerRow(row.id, row.server_id, name)

\* register_server: the session is opened and the select has run
RegisterSelect(t, server_id, name) ==
    /\ gtask[t].pc = "idle"
    /\ gtask' = [gtask EXCEPT ![t] =
                   [pc |-> "selected", server_id |-> server_id, name |-> name,
                    existing |-> ServerWithId(gservers, server_id),
                    pending |-> NoPending, ret |-> 0]]
    /\ UNCHANGED <<gservers, gtools, gnext, glisted>>

\* register_server: the assignments or sess.add, then flush. An INSERT waits
\* for an uncommitted INSERT of the same server_id and fails on a committed
\* one (unique index on server_id); the exception rolls the session back.
RegisterFlush(t) ==
    /\ gtask[t].pc = "selected"
    /\ IF gtask[t].existing # NoRow
         THEN /\ gtask' = [gtask EXCEPT ![t].pc = "flushed",
                             ![t].pending = [kind |-> "update",
                                             row |-> UpdateInPlace(gtask[t].existing,
                                                                   gtask[t].name, gnext)]]
              /\ UNCHANGED gnext
         ELSE /\ \A u \in RegistryTasks \ {t} :
                    ~(gtask[u].pending.kind = "insert"
                        /\ gtask[u].pending.row.server_id = gtask[t].server_id)
              /\ IF ServerWithId(gservers, gtask[t].server_id) # NoRow
                   THEN /\ gtask' = [gtask EXCEPT ![t] =
                                       [IdleTask EXCEPT !.ret = IntegrityError,
                                                        !.server_id = gtask[t].server_id]]
                        /\ UNCHANGED gnext
                   ELSE /\ gtask' = [gtask EXCEPT ![t].pc = "flushed",
                                       ![t].pending =
                                          [kind |-> "insert",
                                           row |-> ServerRow(gnext, gtask[t].server_id,
                                                             gtask[t].name)]]
                        /\ gnext' = gnext + 1
    /\ UNCHANGED <<gservers, gtools, glisted>>

\* get_async_session: commit; register_server returns str(server.id)
RegisterCommit(t) ==
    /\ gtask[t].pc = "flushed"
    /\ LET row == gtask[t].pending.row
       IN  /\ gservers' = IF gtask[t].pending.kind = "update"
                            THEN {r \in gservers : r.id # gtask[t].existing.id} \cup {row}
                            ELSE gservers \cup {row}
           /\ gtask' = [gtask EXCEPT ![t] =
                          [IdleTask EXCEPT !.ret = row.id,
                                           !.server_id = gtask[t].server_id,
                                           !.existing = gtask[t].existing]]
    /\ UNCHANGED <<gtools, gnext, glisted>>

NoListing == [server_id |-> "no call", enabled_only |-> FALSE, tools |-> {}]

\* list_tools(server_id=..., enabled_only=...); server_id "None" is the
\* default argument
list_tools(servers, tools, server_id, enabled_only) ==
    LET server_uuid == IF server_id = "None" THEN 0
                       ELSE ServerWithId(servers, server_id).id
    IN  {t \in tools :
            /\ enabled_only => t.enabled
            /\ server_uuid # 0 => t.server = server_uuid}

ListTools(server_id, enabled_only) ==
    /\ glisted' = [server_id |-> server_id, enabled_only |-> enabled_only,
                   tools |-> list_tools(gservers, gtools, server_id, enabled_only)]
    /\ UNCHANGED <<gservers, gtools, gnext, gtask>>

\* the tables before the calls: empty, or server "a" with its tools, or
\* servers "a" and "b" with theirs
RegistryTables ==
    { [servers |-> {}, tools |-> {}, next |-> 1],
      [servers |-> {ServerRow(1, "a", "alpha")},
       tools |-> {ToolRow(1, "read_file", TRUE), ToolRow(1, "old_tool", FALSE)},
       next |-> 2],
      [servers |-> {ServerRow(1, "a", "alpha"), ServerRow(2, "b", "beta")},
       tools |-> {ToolRow(1, "read_file", TRUE), ToolRow(2, "fetch", TRUE)},
       next |-> 3] }

RegistryOff ==
    /\ gservers = {}
    /\ gtools = {}
    /\ gnext = 0
    /\ gtask = <<>>
    /\ glisted = NoListing

RegistryInit ==
    /\ \E tab \in RegistryTables :
          /\ gservers = tab.servers
          /\ gtools = tab.tools
          /\ gnext = tab.next
    /\ gtask = [t \in RegistryTasks |-> IdleTask]
    /\ glisted = NoListing

-----------------------------------------------------------------------------
(* Pipeline._execute_tool run by several executions on one MCPClient *)

Executions == 1..NumExecutions

Execution(pc, transport, result) == [pc |-> pc, transport |-> transport, result |-> result]

\* "if server_info.server_id not in self.mcp_client.list_connections()"
StageCheck(e) ==
    /\ sexec[e].pc = "start"
    /\ sexec' = [sexec EXCEPT ![e].pc = IF sconn = 0 THEN "connect" ELSE "call"]
    /\ UNCHANGED <<sconn, slive, slock, snext>>

\* connect_server: "if server_id in self._connections: await
\* self._disconnect_server_internal(server_id)"
DropStored(conn, live) == [conn |-> 0, live |-> live \ {conn}]

\* connect_server takes the client lock and drops what is stored for S
ConnectLocked(e) ==
    /\ sexec[e].pc = "connect"
    /\ slock = 0
    /\ slock' = e
    /\ sconn' = DropStored(sconn, slive).conn
    /\ slive' = DropStored(sconn, slive).live
    /\ sexec' = [sexec EXCEPT ![e].pc = "transport"]
    /\ UNCHANGED snext

\* connect_server: create_transport and transport.connect()
ConnectTransport(e, ok) ==
    /\ sexec[e].pc = "transport"
    /\ IF ok
         THEN /\ slive' = slive \cup {snext}
              /\ snext' = snext + 1
              /\ sexec' = [sexec EXCEPT ![e].pc = "handshake", ![e].transport = snext]
              /\ UNCHANGED slock
         ELSE /\ slock' = 0
              /\ sexec' = [sexec EXCEPT ![e].pc = "done",
                                        ![e].result = "Could not connect to server"]
              /\ UNCHANGED <<slive, snext>>
    /\ UNCHANGED sconn

\* connect_server: the handshake, then the connection is stored and the
\* lock released, or the new transport is disconnected
ConnectHandshake(e, ok) ==
    /\ sexec[e].pc = "handshake"
    /\ slock' = 0
    /\ IF ok
         THEN /\ sconn' = sexec[e].transport
              /\ sexec' = [sexec EXCEPT ![e].pc = "call", ![e].transport = 0]
              /\ UNCHANGED slive
         ELSE /\ slive' = slive \ {sexec[e].transport}
              /\ sexec' = [sexec EXCEPT ![e].pc = "done", ![e].transport = 0,
                                        ![e].result = "Could not connect to server"]
              /\ UNCHANGED sconn
    /\ UNCHANGED snext

\* call_tool: the connection is fetched and the request written
CallSend(e) ==
    /\ sexec[e].pc = "call"
    /\ IF sconn = 0
         THEN sexec' = [sexec EXCEPT ![e].pc = "done",
                                     ![e].result = "Server not connected"]
         ELSE sexec' = [sexec EXCEPT ![e].pc = "awaiting", ![e].transport = sconn]
    /\ UNCHANGED <<sconn, slive, slock, snext>>

\* call_tool: the response arrives, or, the transport having been
\* disconnected, the wait ends in the timeout
CallReturn(e) ==
    /\ sexec[e].pc = "awaiting"
    /\ sexec' = [sexec EXCEPT ![e].pc = "done",
                   ![e].result = IF sexec[e].transport \in slive
                                   THEN "success" ELSE "Request timed out"]
    /\ UNCHANGED <<sconn, slive, slock, snext>>

SharedOff ==
    /\ sconn = 0
    /\ slive = {}
    /\ slock = 0
    /\ snext = 0
    /\ sexec = <<>>

\* the executions are about to test the connection; S has none stored
SharedInit ==
    /\ sconn = 0
    /\ slive = {}
    /\ slock = 0
    /\ snext = 1
    /\ sexec = [e \in Executions |-> Execution("start", 0, "none")]

-----------------------------------------------------------------------------
(* Specifications *)

TransportInit ==
    /\ tkind \in {"stdio", "websocket"}
    /\ tproc = "new"
    /\ treader = "none"
    /\ tdisc = "no"
    /\ tlock = 0
    /\ tpending = {}
    /\ tfut = [i \in Ids |-> "none"]
    /\ tres = [i \in Ids |-> NoResp]
    /\ rstate = [i \in Ids |-> "unused"]
    /\ rcaller = [i \in Ids |-> 0]
    /\ rresp = [i \in Ids |-> NoResp]
    /\ nextId = 1
    /\ tserver = {}
    /\ tlog = <<>>

TransportOff ==
    /\ tkind = "none"
    /\ tproc = "new"
    /\ treader = "none"
    /\ tdisc = "no"
    /\ tlock = 0
    /\ tpending = {}
    /\ tfut = [i \in Ids |-> "none"]
    /\ tres = [i \in Ids |-> NoResp]
    /\ rstate = [i \in Ids |-> "unused"]
    /\ rcaller = [i \in Ids |-> 0]
    /\ rresp = [i \in Ids |-> NoResp]
    /\ nextId = 1
    /\ tserver = {}
    /\ tlog = <<>>

\* The transport alone: callers, the reader task and the server on one
\* connection.
TransportRest == UNCHANGED <<revars, ievars, dvars, pvars, cvars, bvars, avars, gvars, svars>>

TransportNext ==
    \/ \E ok \in BOOLEAN : TConnect(ok) /\ TransportRest
    \/ \E c \in Callers : SendStart(c) /\ TransportRest
    \/ \E i \in Ids : SendLocked(i) /\ TransportRest
    \/ \E i \in Ids : WriteDone(i) /\ TransportRest
    \/ \E k \in FrameKinds, i \in Ids : ReaderFrame(k, i) /\ TransportRest
    \/ ConnectionLost /\ TransportRest
    \/ ReaderEnd /\ TransportRest
    \/ \E i \in Ids : SendReturn(i) /\ TransportRest
    \/ \E i \in Ids : SendTimeout(i) /\ TransportRest
    \/ \E i \in Ids : SendCancel(i) /\ TransportRest
    \/ DisconnectBegin /\ TransportRest
    \/ DisconnectFinish /\ TransportRest

TransportStart ==
    /\ TransportInit /\ ParamsOff /\ DiscoverAllOff /\ RegistryOff /\ SharedOff /\ RulesOff /\ IntentOff /\ DiscoveryOff /\ PipelineOff
    /\ ClientOff

SpecTransport == TransportStart /\ [][TransportNext]_vars

\* The rule engine alone: its rule list changes through add_rule,
\* remove_rule and load_from_database, and contexts are evaluated.
RulesRest == UNCHANGED <<tvars, ievars, dvars, pvars, cvars, bvars, avars, gvars, svars>>

RulesNext ==
    \/ \E r \in CustomRules : AddRule(r) /\ RulesRest
    \/ \E r \in CustomRules : RemoveRule(r.name) /\ RulesRest
    \/ \E k \in 1..Len(DEFAULT_RULES) : RemoveRule(DEFAULT_RULES[k].name) /\ RulesRest
    \/ LoadRulesFromDatabase /\ RulesRest
    \/ \E ctx \in Contexts : Evaluate(ctx) /\ RulesRest
    \/ EvaluateReturn /\ RulesRest

RulesStart ==
    /\ RulesInit /\ ParamsOff /\ DiscoverAllOff /\ RegistryOff /\ SharedOff /\ TransportOff /\ IntentOff /\ DiscoveryOff /\ PipelineOff
    /\ ClientOff

SpecRules == RulesStart /\ [][RulesNext]_vars

\* The intent engine alone: the override list changes through add_override,
\* remove_override and load_from_database, the classifier may get trained,
\* and texts are matched and classified.
IntentRest == UNCHANGED <<tvars, revars, dvars, pvars, cvars, bvars, avars, gvars, svars>>

IntentNext ==
    \/ \E o \in CustomOverrides : AddOverride(o) /\ IntentRest
    \/ \E o \in CustomOverrides \cup {DEFAULT_OVERRIDES[9]} :
          RemoveOverride(o.pattern) /\ IntentRest
    \/ \E recs \in BoundedSeq(DbOverrides, MaxAddedOverrides) :
          recs # <<>> /\ LoadOverridesFromDatabase(recs) /\ IntentRest
    \/ TrainClassifier /\ IntentRest
    \/ \E text \in Texts : FindMatch(text) /\ IntentRest
    \/ \E text \in Texts, pred \in Predictions : Classify(text, pred) /\ IntentRest
    \/ IntentReturn /\ IntentRest

IntentStart ==
    /\ IntentInit /\ ParamsOff /\ DiscoverAllOff /\ RegistryOff /\ SharedOff /\ TransportOff /\ RulesOff /\ DiscoveryOff /\ PipelineOff
    /\ ClientOff

SpecIntent == IntentStart /\ [][IntentNext]_vars

\* Repeated discoveries of one server; every step that talks to the server
\* or the database may fail.
DiscoveryRest == UNCHANGED <<tvars, revars, ievars, pvars, cvars, bvars, avars, gvars, svars>>

DiscoveryNext ==
    \/ DiscoverBegin /\ DiscoveryRest
    \/ \E cause \in {"connect", "handshake"} : ConnectFails(cause) /\ DiscoveryRest
    \/ \E tools \in BoundedSeq(ToolPool, MaxTools) : ConnectOk(tools) /\ DiscoveryRest
    \/ \E ok \in BOOLEAN : DeleteToolsForServer(ok) /\ DiscoveryRest
    \/ \E ok \in BOOLEAN : RegisterTool(ok) /\ DiscoveryRest
    \/ \E ok \in BOOLEAN : CommitSession(ok) /\ DiscoveryRest
    \/ DiscoverSucceeds /\ DiscoveryRest
    \/ \E reader \in {"list_tools", "find_tool_by_intent", "get_tool_with_server"} :
          ReadCatalog(reader) /\ DiscoveryRest

DiscoveryStart ==
    /\ DiscoveryInit /\ ParamsOff /\ DiscoverAllOff /\ RegistryOff /\ SharedOff /\ TransportOff /\ RulesOff /\ IntentOff /\ PipelineOff
    /\ ClientOff

SpecDiscovery == DiscoveryStart /\ [][DiscoveryNext]_vars

\* the catalogs a committed discovery can leave: one record per tool name
Catalogs ==
    {c \in SUBSET ToolPool : \A t, u \in c : t.name = u.name => t = u}

\* A process started over a registry that earlier discoveries filled.
SelectionInit ==
    /\ registered = TRUE
    /\ dbTools \in Catalogs
    /\ lastGood = dbTools
    /\ txTools = {}
    /\ dstate = "idle"
    /\ dtools = <<>>
    /\ dk = 1
    /\ dstatus \in {"active", "error"}
    /\ dresult = NoDiscovery
    /\ dother = OtherCatalog
    /\ txOther = {}
    /\ dread = NotRead
    /\ dlastError = "None"
    /\ dfound = <<>>

\* Tool selection over a registry no discovery is rewriting.
SelectionNext ==
    \E intent \in Intents : FindToolByIntent(intent) /\ DiscoveryRest

SelectionStart ==
    /\ SelectionInit /\ ParamsOff /\ DiscoverAllOff /\ RegistryOff /\ SharedOff /\ TransportOff /\ RulesOff /\ IntentOff /\ PipelineOff
    /\ ClientOff

SpecSelection == SelectionStart /\ [][SelectionNext]_vars

\* One request through stages 5 and 6.
ParamsRest == UNCHANGED <<tvars, revars, ievars, dvars, pvars, cvars, avars, gvars, svars>>

ParamsNext ==
    \/ BuildParameters /\ ParamsRest
    \/ ValidateParameters /\ ParamsRest

ParamsStart ==
    /\ ParamsInit /\ DiscoverAllOff /\ RegistryOff /\ SharedOff /\ TransportOff /\ RulesOff /\ IntentOff /\ DiscoveryOff
    /\ PipelineOff /\ ClientOff

SpecParams == ParamsStart /\ [][ParamsNext]_vars

\* The pipeline with its intent engine and its rule engine: requests run
\* through execute one at a time, and rules are added between the stages.
PipelineRest == UNCHANGED <<tvars, revars, ievars, dvars, cvars, bvars, avars, gvars, svars>>

PipelineNext ==
    \/ \E r \in CustomRules : AddRule(r) /\ UNCHANGED <<tvars, ievars, dvars, pvars, cvars, bvars, avars, gvars, svars>>
    \/ \E text \in PipelineTexts, role \in Roles : Execute(text, role) /\ PipelineRest
    \/ \E raises \in BOOLEAN, found \in Extracted :
          EntityExtraction(raises, found) /\ PipelineRest
    \/ \E pred \in Predictions, raises \in BOOLEAN :
          IntentClassification(pred, raises) /\ PipelineRest
    \/ \E raises \in BOOLEAN : RuleEvaluation(raises) /\ PipelineRest
    \/ \E outcome \in {"found", "none", "raised"} : ToolSelection(outcome) /\ PipelineRest
    \/ \E outcome \in {"built", "missing", "raised"} :
          ParameterBuilding(outcome) /\ PipelineRest
    \/ \E outcome \in {"valid", "invalid", "raised"} :
          SchemaValidation(outcome) /\ PipelineRest
    \/ \E outcome \in {"called", "not_found", "connect_failed", "call_failed",
                        "call_raised"}, connected \in BOOLEAN,
          content \in ServerContents \cup {NoContent} :
          ToolExecution(outcome, connected, content) /\ PipelineRest
    \/ ResponseFormatting /\ PipelineRest
    \/ ExecuteReturn /\ PipelineRest

PipelineStart ==
    /\ PipelineInit /\ ParamsOff /\ DiscoverAllOff /\ RegistryOff /\ SharedOff /\ RulesInit /\ IntentInit /\ TransportOff /\ DiscoveryOff
    /\ ClientOff

SpecPipeline == PipelineStart /\ [][PipelineNext]_vars

\* The MCP client with one server: connects, tool calls, disconnects, the
\* death of the transport, and stage 7 of the pipeline on top of them.
ClientRest == UNCHANGED <<tvars, revars, ievars, dvars, pvars, bvars, avars, gvars, svars>>

ClientNext ==
    \/ ConnectBegin /\ ClientRest
    \/ \E ok \in BOOLEAN : TransportConnect(ok) /\ ClientRest
    \/ \E ev \in ServerEvents, caps \in BOOLEAN : Initialize(ev, caps) /\ ClientRest
    \/ \E ev \in ServerEvents : NotifyInitialized(ev) /\ ClientRest
    \/ \E ev \in ServerEvents : DiscoverTools(ev) /\ ClientRest
    \/ TransportDies /\ ClientRest
    \/ DisconnectServer /\ ClientRest
    \/ \E ev \in ServerEvents : CallTool(ev) /\ ClientRest
    \/ \E found \in BOOLEAN : ToolStageBegin(found) /\ ClientRest
    \/ ToolStageConnected /\ ClientRest
    \/ \E ev \in ServerEvents : ToolStageCall(ev) /\ ClientRest
    \/ ToolStageReturn /\ ClientRest
    \/ \E reader \in {"call_tool", "ping_server", "list_connections"} :
          Observe(reader) /\ ClientRest

ClientStart ==
    /\ ClientInit /\ ParamsOff /\ DiscoverAllOff /\ RegistryOff /\ SharedOff /\ TransportOff /\ RulesOff /\ IntentOff /\ DiscoveryOff
    /\ PipelineOff

SpecClient == ClientStart /\ [][ClientNext]_vars



\* discover_all over the configured servers.
DiscoverAllRest == UNCHANGED <<tvars, revars, ievars, dvars, pvars, cvars, bvars, gvars, svars>>

DiscoverAllNext ==
    \/ DiscoverAll /\ DiscoverAllRest
    \/ \E ok \in BOOLEAN : RegisterServer(ok) /\ DiscoverAllRest
    \/ SkipDisabled /\ DiscoverAllRest
    \/ \E raises \in BOOLEAN : StatusDiscovering(raises) /\ DiscoverAllRest
    \/ \E outcome \in {"connected", "refused", "raised"} :
          ConnectServer(outcome) /\ DiscoverAllRest
    \/ \E raises \in BOOLEAN : ConnectRefused(raises) /\ DiscoverAllRest
    \/ \E raises \in BOOLEAN : RewriteCatalog(raises) /\ DiscoverAllRest
    \/ \E raises \in BOOLEAN : ExceptHandler(raises) /\ DiscoverAllRest
    \/ DiscoverAllReturn /\ DiscoverAllRest

DiscoverAllStart ==
    /\ DiscoverAllInit /\ RegistryOff /\ SharedOff /\ ParamsOff /\ TransportOff /\ RulesOff /\ IntentOff
    /\ DiscoveryOff /\ PipelineOff /\ ClientOff

SpecDiscoverAll == DiscoverAllStart /\ [][DiscoverAllNext]_vars

\* The registry tables under register_server calls of two tasks and
\* list_tools calls.
RegistryRest == UNCHANGED <<tvars, revars, ievars, dvars, pvars, cvars, bvars, avars, svars>>

RegistryNext ==
    \/ \E t \in RegistryTasks, server_id \in {"a", "b"}, name \in ServerNames :
          RegisterSelect(t, server_id, name) /\ RegistryRest
    \/ \E t \in RegistryTasks : RegisterFlush(t) /\ RegistryRest
    \/ \E t \in RegistryTasks : RegisterCommit(t) /\ RegistryRest
    \/ \E server_id \in {"a", "b", "zz", "None"}, enabled_only \in BOOLEAN :
          ListTools(server_id, enabled_only) /\ RegistryRest

RegistryStart ==
    /\ RegistryInit /\ SharedOff /\ DiscoverAllOff /\ ParamsOff /\ TransportOff /\ RulesOff
    /\ IntentOff /\ DiscoveryOff /\ PipelineOff /\ ClientOff

SpecRegistry == RegistryStart /\ [][RegistryNext]_vars

\* Executions in stage 7 together, on one client and one server.
SharedRest == UNCHANGED <<tvars, revars, ievars, dvars, pvars, cvars, bvars, avars, gvars>>

SharedNext ==
    \/ \E e \in Executions : StageCheck(e) /\ SharedRest
    \/ \E e \in Executions : ConnectLocked(e) /\ SharedRest
    \/ \E e \in Executions, ok \in BOOLEAN : ConnectTransport(e, ok) /\ SharedRest
    \/ \E e \in Executions, ok \in BOOLEAN : ConnectHandshake(e, ok) /\ SharedRest
    \/ \E e \in Executions : CallSend(e) /\ SharedRest
    \/ \E e \in Executions : CallReturn(e) /\ SharedRest

SharedStart ==
    /\ SharedInit /\ RegistryOff /\ DiscoverAllOff /\ ParamsOff /\ TransportOff
    /\ RulesOff /\ IntentOff /\ DiscoveryOff /\ PipelineOff /\ ClientOff

SpecShared == SharedStart /\ [][SharedNext]_vars

-----------------------------------------------------------------------------
(* Claims on the transport *)

Finished(i) == rstate[i] \in {"returned", "timeout", "cancelled", "writeerror", "notconnected"}
Pos(s, x) == CHOOSE k \in 1..Len(s) : s[k] = x
Occurrences(s, x) == Cardinality({k \in 1..Len(s) : s[k] = x})

\* C4: under concurrent send_request calls on one connection every caller
\* that is resumed with a response holds the response whose id is its own
\* request id (the server's answer to its own request), whatever the order
\* of the responses, and no response completes a waiter twice.
C4_Correlation ==
    /\ \A i \in Ids : tfut[i] = "result" => tres[i] = ServerResponse(i)
    /\ \A i \in Ids : rstate[i] = "returned" =>
          /\ rresp[i].id = i
          /\ rresp[i].for = rcaller[i]
    /\ \A i \in Ids : Occurrences(tlog, i) <= 1

\* Two callers' requests (ids are drawn in call order) were answered in the
\* reverse of the order of the calls and both calls have returned.
C4_Witness ==
    \E i, j \in Ids :
        /\ rstate[i] = "returned" /\ rstate[j] = "returned"
        /\ rcaller[i] # rcaller[j]
        /\ i < j
        /\ Pos(tlog, j) < Pos(tlog, i)

\* C9: after send_request has returned or raised, the pending map holds no
\* entry for the request's id (in particular after the timeout).
C9_NoEntryAfterCall == \A i \in Ids : Finished(i) => i \notin tpending

\* C10: once the connection is lost or closed by disconnect(), no
\* send_request waiter is still pending: each was failed with a
\* connection-closed error.
C10_WaitersFailedOnClose ==
    (treader = "done" /\ tproc \in {"dead", "closed"}) =>
        \A i \in Ids : rstate[i] = "waiting" => tfut[i] # "pending"

\* C22: a send_request cancelled while it awaits its response leaves no
\* waiter for its id in the pending-request map.
C22_CancelRemovesWaiter ==
    \A i \in Ids : (rstate[i] = "cancelled" /\ tfut[i] = "cancelled") => i \notin tpending

\* C23: on a connection that is open and not being disconnected the reader
\* task is running, whatever frames (well-formed or not) it has read.
C23_ReaderSurvivesBadFrames ==
    (tproc = "open" /\ tdisc = "no") => treader = "running"

Returns(i) == rstate[i] = "waiting" /\ rstate'[i] = "returned"

-----------------------------------------------------------------------------
(* Claims on the rule engine *)

Range(s) == {s[k] : k \in 1..Len(s)}
RuleNamed(n) == rules[CHOOSE k \in 1..Len(rules) : rules[k].name = n]

\* Positions of the enabled DENY rules whose predicate is true of the
\* evaluated context.
MatchingDenies ==
    {k \in 1..Len(rules) :
        rules[k].enabled /\ rules[k].decision = "DENY" /\ RuleMatches(rules[k], rctx)}

\* The matching DENY rule of highest priority, the earliest added among equals.
TopDeny ==
    CHOOSE k \in MatchingDenies : \A j \in MatchingDenies :
        \/ rules[k].priority > rules[j].priority
        \/ rules[k].priority = rules[j].priority /\ k <= j

\* C5: evaluate walks the rules in descending priority; the first enabled
\* DENY rule whose predicate is true ends the walk with decision DENY and its
\* description as reason; no rule of lower priority is evaluated or listed in
\* matched_rules, and no ALLOW or MODIFY rule, matched before or after, changes
\* the decision.
C5_DenyIsTerminal ==
    rresult # NoResult =>
        /\ \A a, b \in 1..Len(rresult.evaluated) :
              a < b => RuleNamed(rresult.evaluated[a]).priority
                         >= RuleNamed(rresult.evaluated[b]).priority
        /\ Range(rresult.matched_rules) \subseteq Range(rresult.evaluated)
        /\ IF MatchingDenies = {}
             THEN rresult.decision \in {"ALLOW", "MODIFY"}
             ELSE LET t == rules[TopDeny]
                  IN  /\ rresult.decision = "DENY"
                      /\ rresult.reason = t.description
                      /\ rresult.terminal_rule = t.name
                      /\ rresult.matched_rules[Len(rresult.matched_rules)] = t.name
                      /\ rresult.modifications = NoMods
                      /\ \A k \in 1..Len(rules) :
                            rules[k].priority < t.priority =>
                                rules[k].name \notin Range(rresult.evaluated)
                      /\ \A k \in 1..Len(rules) :
                            k > TopDeny => rules[k].name \notin Range(rresult.evaluated)

\* A DENY reached after an ALLOW rule had matched, with a matching ALLOW rule
\* of lower priority left unevaluated.
C5_Witness ==
    /\ rresult # NoResult
    /\ rresult.decision = "DENY"
    /\ "admin_confidence_bypass" \in Range(rresult.matched_rules)
    /\ HasRule("always_allow")
    /\ "always_allow" \notin Range(rresult.evaluated)

DefaultRuleSet == rules = SortRules(DEFAULT_RULES)

\* C19: with the default rule set, an admin whose intent is not forced and
\* has a confidence below the threshold (and who is within the rate limit)
\* is not denied by evaluate.
C19_AdminBypassesLowConfidence ==
    (rresult # NoResult /\ DefaultRuleSet /\ rctx.role = "admin"
       /\ ~rctx.is_forced /\ rctx.confidence < INTENT_CONFIDENCE_THRESHOLD
       /\ rctx.request_count <= RATE_LIMIT_REQUESTS)
        => rresult.decision # "DENY"

ConfidenceThresholdRule ==
    DEFAULT_RULES[CHOOSE k \in 1..Len(DEFAULT_RULES) :
                    DEFAULT_RULES[k].name = "confidence_threshold"]

\* C20: with the default rule set, the confidence_threshold rule matches no
\* context whose intent is forced, whatever its confidence and role, and no
\* evaluation of such a context lists it among the matched rules or is
\* denied by it.
C20_ForcedNeverBelowThreshold ==
    /\ \A ctx \in Contexts :
          ctx.is_forced => ~RuleMatches(ConfidenceThresholdRule, ctx)
    /\ (rresult # NoResult /\ DefaultRuleSet /\ rctx.is_forced)
          => /\ "confidence_threshold" \notin Range(rresult.matched_rules)
             /\ rresult.decision = "DENY"
                  => rresult.reason # ConfidenceThresholdRule.description

\* C20 witness: the default rules evaluated a forced intent of confidence
\* below the threshold, for a guest, and did not deny it.
C20_Witness ==
    /\ rresult # NoResult
    /\ DefaultRuleSet
    /\ rctx.is_forced
    /\ rctx.confidence < INTENT_CONFIDENCE_THRESHOLD
    /\ rctx.role = "guest"
    /\ rresult.decision # "DENY"

RECURSIVE MergedModifications(_)
\* the modification maps of the MODIFY rules among the named ones, merged in
\* the order of the names, a later key replacing an earlier one
MergedModifications(names) ==
    IF names = <<>> THEN {}
    ELSE LET before == MergedModifications(SubSeq(names, 1, Len(names) - 1))
             last == RuleNamed(names[Len(names)])
         IN  IF last.decision = "MODIFY"
               THEN {p \in before : \A q \in last.modifications : q[1] # p[1]}
                      \cup last.modifications
               ELSE before

\* C21: when evaluate ends without a DENY, the modifications of the result
\* are the maps of all matched MODIFY rules merged in walk order, later keys
\* overwriting earlier ones; the decision is that of the last matched rule
\* (MODIFY after a matched MODIFY rule until an ALLOW rule matches); and when
\* no rule matched the decision is ALLOW and the modifications are empty.
C21_ModificationsAccumulate ==
    (rresult # NoResult /\ rresult.decision # "DENY") =>
        /\ rresult.modifications = MergedModifications(rresult.matched_rules)
        /\ \A k \in 1..Len(rresult.matched_rules) :
              /\ RuleNamed(rresult.matched_rules[k]).enabled
              /\ RuleMatches(RuleNamed(rresult.matched_rules[k]), rctx)
        /\ \A k \in 1..Len(rules) :
              (rules[k].enabled /\ RuleMatches(rules[k], rctx))
                  => rules[k].name \in Range(rresult.matched_rules)
        /\ IF rresult.matched_rules = <<>>
             THEN rresult.decision = "ALLOW" /\ rresult.modifications = {}
             ELSE rresult.decision =
                    RuleNamed(rresult.matched_rules[Len(rresult.matched_rules)]).decision

\* C21 witness: two MODIFY rules that set the same key matched, and the value
\* of the one walked later is in the result, next to a key only one sets.
C21_Witness ==
    /\ rresult # NoResult
    /\ rresult.decision = "MODIFY"
    /\ "tag_request" \in Range(rresult.matched_rules)
    /\ "tag_again" \in Range(rresult.matched_rules)
    /\ <<"tag", "review">> \in rresult.modifications
    /\ <<"tag", "audit">> \notin rresult.modifications
    /\ <<"level", "2">> \in rresult.modifications

LastMatched == RuleNamed(rresult.matched_rules[Len(rresult.matched_rules)])

\* C38 as stated: in every RuleResult returned by evaluate the modifications
\* are non-empty only if the decision is MODIFY.
C38_AsStated ==
    (rresult # NoResult /\ rresult.modifications # {})
        => rresult.decision = "MODIFY"

\* C38: in every RuleResult returned by evaluate the modifications are
\* non-empty only if the decision is not DENY and a MODIFY rule with a
\* non-empty map matched; the decision is MODIFY exactly when the last matched
\* rule is a MODIFY rule, so an ALLOW rule matching after a MODIFY rule resets
\* the decision to ALLOW and the accumulated modifications stay in the result.
C38_ModificationsOutliveModify ==
    rresult # NoResult =>
        /\ rresult.modifications # {} =>
              /\ rresult.decision \in {"ALLOW", "MODIFY"}
              /\ \E k \in 1..Len(rresult.matched_rules) :
                    /\ RuleNamed(rresult.matched_rules[k]).decision = "MODIFY"
                    /\ RuleNamed(rresult.matched_rules[k]).modifications # {}
        /\ (rresult.decision = "MODIFY") <=>
              (rresult.matched_rules # <<>> /\ LastMatched.decision = "MODIFY")
        /\ (rresult.decision = "ALLOW" /\ rresult.matched_rules # <<>>) =>
              LastMatched.decision = "ALLOW"

\* C38 witness: a MODIFY rule matched, an ALLOW rule of lower priority matched
\* after it, and the result is ALLOW with the modifications of the MODIFY rule.
C38_Witness ==
    /\ rresult # NoResult
    /\ rresult.decision = "ALLOW"
    /\ rresult.matched_rules # <<>>
    /\ "tag_request" \in Range(rresult.matched_rules)
    /\ LastMatched.name = "always_allow"
    /\ <<"tag", "audit">> \in rresult.modifications

-----------------------------------------------------------------------------
(* Claims on the intent engine *)

Matching(text) == {k \in 1..Len(overrides) : matches(overrides[k], text)}

ForcedOutcome ==
    /\ ~iresult.predict_called
    /\ iresult.is_forced
    /\ iresult.confidence = 100
    /\ iresult.source = "forced_override"
    /\ iresult.intent = find_match(overrides, itext).intent
    /\ \E k \in Matching(itext) : iresult.intent = overrides[k].target_intent

\* C6 (as amended): whenever classify is called with a text that holds at
\* least one non-whitespace character and that some enabled override
\* matches, the classifier's predict is not invoked and the result is forced,
\* has confidence 1.0 and carries the intent of the selected override,
\* whether or not the classifier is trained.
C6_ForcedSkipsClassifier ==
    (icall = "classify" /\ ~IsBlank(itext) /\ Matching(itext) # {})
        => ForcedOutcome

\* C6 witness: a trained engine classified a non-blank text that an override
\* matches, and the result is forced.
C6_Witness ==
    /\ icall = "classify"
    /\ trained
    /\ ~IsBlank(itext)
    /\ Matching(itext) # {}
    /\ iresult.is_forced
    /\ Len(overrides) > Len(DEFAULT_OVERRIDES)

\* C6 as stated in the specification: the same for every non-empty text that
\* some enabled override matches.
C6_AsStated ==
    (icall = "classify" /\ itext # <<>> /\ Matching(itext) # {})
        => ForcedOutcome

\* The match the specification promises: among the matching overrides the
\* one of highest priority, the earliest inserted among equals.
BestMatch(text) ==
    IF Matching(text) = {} THEN NoMatch
    ELSE LET k == CHOOSE a \in Matching(text) :
                    \A b \in Matching(text) :
                        \/ overrides[a].priority > overrides[b].priority
                        \/ /\ overrides[a].priority = overrides[b].priority
                           /\ a <= b
         IN  [intent |-> overrides[k].target_intent,
              pattern |-> overrides[k].pattern]

\* C7: in every registry state, find_match returns the matching enabled
\* override of highest priority, ties going to the earlier inserted one, and
\* no match when none matches.
C7_HighestPriorityMatch ==
    icall = "find_match" => iresult = BestMatch(itext)

-----------------------------------------------------------------------------
(* Claims on discovery *)

RECURSIVE CatalogOf(_)
\* the catalog that registering the advertised tools one by one leaves
CatalogOf(tools) ==
    IF tools = <<>> THEN {}
    ELSE Upsert(CatalogOf(SubSeq(tools, 1, Len(tools) - 1)), tools[Len(tools)])

ReadStep ==
    \E reader \in {"list_tools", "find_tool_by_intent", "get_tool_with_server"} :
        ReadCatalog(reader)

\* C14: every read of S's catalog made while discover_server holds its
\* session open (tools deleted, some or all advertised tools written, or the
\* session just committed) returns the complete catalog of the last committed
\* rewrite or the complete advertised one, never the emptied or partly
\* written catalog of the session; and a failed rewrite leaves the committed
\* catalog as it was.
C14_ReadersSeeOldOrNew ==
    [][ /\ (ReadStep /\ dstate \in {"session", "registering", "committed"})
            => dread' \in {lastGood, CatalogOf(dtools)}
        /\ (RewriteFails /\ dstate \in {"session", "registering"})
            => dbTools' = lastGood ]_vars

\* C14 witness: the session has deleted the old catalog and written one new
\* tool, and a reader has seen the old, non-empty catalog, which is neither
\* what the session holds nor empty.
C14_Witness ==
    /\ dstate = "registering"
    /\ dk > 1
    /\ dbTools # {}
    /\ txTools # dbTools
    /\ dread = dbTools
    /\ dread = lastGood

DiscoverReturned == dstate = "idle" /\ dresult # NoDiscovery

\* C15: for a registered server, discover_server first sets the status to
\* 'discovering'; once it has returned, the status is 'active' exactly when
\* the result is a success, otherwise it is 'error' and last_error is the
\* error message of the result; the status is never 'discovering' after the
\* return.
C15_StatusFollowsResult ==
    registered =>
        /\ (dstate = "connecting" => dstatus = "discovering")
        /\ DiscoverReturned =>
              /\ (dstatus = "active") <=> (dresult.success = TRUE)
              /\ (dresult.success = FALSE) =>
                    (dstatus = "error" /\ dlastError = dresult.error)
              /\ dstatus # "discovering"

\* C15 witness: a discovery of a registered server returned a failure of the
\* catalog rewrite, after an earlier one had succeeded.
C15_Witness ==
    /\ registered
    /\ DiscoverReturned
    /\ dresult.success = FALSE
    /\ dresult.cause = "rewrite"
    /\ dstatus = "error"
    /\ dlastError = "database error"
    /\ lastGood # {}

Names(catalog) == {t.name : t \in catalog}

C17_SameSelection ==
    (Len(dfound) = 2 /\ dfound[1].intent = dfound[2].intent
       /\ dfound[1].rows = dfound[2].rows)
        => dfound[1].selected = dfound[2].selected

\* C18: whenever build_parameters reports success, validate_parameters on the
\* parameters it returned and the same schema finds no error: stage 6 passes
\* on what stage 5 reported as built.
C18_BuiltParametersValidate ==
    /\ (bpc \in {"built", "validated"} /\ bresult.success = TRUE)
          => validate_parameters(bresult.parameters, binput.schema).is_valid
    /\ bpc = "validated" => (bcheck.is_valid = TRUE /\ bcheck.errors = {})

\* C18 witness: stage 6 has validated a map built from a converted entity and
\* an override, against a schema with a required property.
C18_Witness ==
    /\ bpc = "validated"
    /\ binput.schema.required = {"path", "count"}
    /\ bresult.mapping_log["path"] = "entity"
    /\ binput.overrides["count"] # NoValue
    /\ bresult.parameters["path"] = Str("abc")

Built == bpc \in {"built", "validated"}

Declared == {n \in ParamNames : binput.schema.properties[n] # NoDef}

\* the sources of a property in the order of the claim, the two free-text
\* tags being the one free-text fallback
SourceTags ==
    <<"override", "entity", "token_url", "noun_chunks", "full_text", "default",
      "schema_default", "none">>

\* what the source of that tag has for property n in the call that was made
Yield(n, tag) ==
    LET def == binput.schema.properties[n]
        e == bresult.entity_of[n]
        ex == binput.entities
    IN  CASE tag = "override" -> binput.overrides[n]
          [] tag = "entity" ->
                IF e # 0 /\ ~ConvertRaises(ex.entities[e].text, def)
                  THEN convert(ex.entities[e].text, def) ELSE NoValue
          [] tag = "token_url" ->
                IF UrlFlagged(n, def) /\ UrlToken(ex.tokens) # ""
                  THEN Str(NormalizeUrl(UrlToken(ex.tokens))) ELSE NoValue
          [] tag = "noun_chunks" ->
                IF n \in FreeTextNames /\ ex.noun_chunks # ""
                  THEN Str(ex.noun_chunks) ELSE NoValue
          [] tag = "full_text" ->
                IF n \in FreeTextNames /\ ex.normalized_text # ""
                  THEN Str(ex.normalized_text) ELSE NoValue
          [] tag = "default" -> binput.defaults[n]
          [] tag = "schema_default" -> def.default
          [] OTHER -> NoValue

\* C26: build_parameters fills each schema property from the first source, in
\* the order override, converted entity, URL token, free text, caller default,
\* schema default, that yields a value; mapping_log names that source; a
\* property no source fills stays unset and is in missing_required exactly
\* when it is required; an override, when given, is the value.
C26_FirstSourceWins ==
    Built =>
      /\ \A n \in Declared :
            /\ \E k \in 1..Len(SourceTags) :
                  /\ bresult.mapping_log[n] = SourceTags[k]
                  /\ bresult.parameters[n] = Yield(n, SourceTags[k])
                  /\ \A j \in 1..(k - 1) : Yield(n, SourceTags[j]) = NoValue
                  /\ k < Len(SourceTags) => Yield(n, SourceTags[k]) # NoValue
            /\ (n \in bresult.missing_required)
                  <=> (bresult.mapping_log[n] = "none" /\ n \in binput.schema.required)
            /\ binput.overrides[n] # NoValue =>
                  (bresult.parameters[n] = binput.overrides[n]
                     /\ bresult.mapping_log[n] = "override")
      /\ \A n \in ParamNames \ Declared :
            bresult.parameters[n] = NoValue /\ n \notin bresult.missing_required

\* C26 witness: one call in which an override beat an entity that matched, the
\* entity went to a later property, free text and a schema default filled two
\* more.
C26_Witness ==
    /\ Built
    /\ bresult.mapping_log["path"] = "override"
    /\ binput.entities.entities = <<ExtractedEntity("FILE_PATH", "abc")>>
    /\ bresult.mapping_log["count"] = "schema_default"
    /\ bresult.mapping_log["url"] = "entity"
    /\ bresult.parameters["url"] = Str("https://abc.com")
    /\ bresult.mapping_log["query"] = "noun_chunks"

Unset == {n \in ParamNames : bresult.parameters[n] = NoValue}

\* C27: if a required property that the schema declares is left unset, the
\* validator is not run, missing_required lists exactly those properties and
\* validation_errors is empty; success is false exactly when missing_required
\* is not empty or the validator reported an error.
C27_MissingSkipsValidation ==
    Built =>
      /\ bresult.missing_required = Declared \cap binput.schema.required \cap Unset
      /\ bresult.missing_required # {} =>
            (~bresult.validated /\ bresult.validation_errors = {})
      /\ bresult.missing_required = {} =>
            (bresult.validated
               /\ bresult.validation_errors
                     = ValidationErrors(bresult.parameters, binput.schema))
      /\ (bresult.success = FALSE)
            <=> (bresult.missing_required # {} \/ bresult.validation_errors # {})

\* C27 witness: a declared required property no source filled, while another
\* property holds a value of the wrong type that the validator would report.
C27_Witness ==
    /\ Built
    /\ "path" \in bresult.missing_required
    /\ bresult.parameters["count"] = Str("abc")
    /\ bresult.validation_errors = {}
    /\ bresult.success = FALSE

\* C27 as stated, for any name of the schema's "required" list: if one is
\* left unset, the validator is not run and missing_required lists it.
C27_AnyRequiredUnset ==
    Built =>
      \A r \in binput.schema.required :
          (r \notin ParamNames \/ bresult.parameters[r] = NoValue)
             => (~bresult.validated /\ r \in bresult.missing_required)

\* the entities find_best_entity had returned before property n was reached
UsedBefore(n) ==
    {bresult.entity_of[ParamOrder[j]] :
        j \in {j \in 1..Len(ParamOrder) :
                  \E k \in 1..Len(ParamOrder) : ParamOrder[k] = n /\ j < k}} \ {0}

\* C28: within one call no entity is selected for two properties, so no two
\* properties are filled from one entity, and the entity a property takes
\* scores highest for it among the entities no earlier property selected (a
\* property takes none only if none of those matches it).
C28_EntityUsedOnce ==
    Built =>
      /\ \A n, m \in Declared :
            (n # m /\ bresult.entity_of[n] # 0)
               => bresult.entity_of[n] # bresult.entity_of[m]
      /\ \A n \in Declared :
            LET def == binput.schema.properties[n]
                ents == binput.entities.entities
                e == bresult.entity_of[n]
                open == {i \in 1..Len(ents) : i \notin UsedBefore(n)}
            IN  /\ bresult.mapping_log[n] = "entity" => e # 0
                /\ e # 0 =>
                      /\ e \in open
                      /\ match_entity_to_param(ents[e], n, def) > 0
                      /\ \A i \in open : match_entity_to_param(ents[i], n, def)
                                            <= match_entity_to_param(ents[e], n, def)
                /\ (e = 0 /\ binput.overrides[n] = NoValue) =>
                      \A i \in open : match_entity_to_param(ents[i], n, def) = 0

\* C28 witness: the only entity, a number, went to the string property that
\* came first, and the integer property it suits better was left without.
C28_Witness ==
    /\ Built
    /\ binput.entities.entities = <<ExtractedEntity("CARDINAL", "12")>>
    /\ bresult.entity_of["path"] = 1
    /\ bresult.mapping_log["path"] = "entity"
    /\ binput.schema.properties["count"] # NoDef
    /\ binput.overrides["count"] = NoValue
    /\ bresult.entity_of["count"] = 0
    /\ bresult.mapping_log["count"] # "entity"

-----------------------------------------------------------------------------
(* Claims on the pipeline *)

StageIds(res) == [k \in 1..Len(res.stage_results) |-> res.stage_results[k].stage]

\* The component methods the stages up to stage k call.
CallsUpTo(k) ==
    (IF k >= 1 THEN {"extract"} ELSE {})
      \cup (IF k >= 2 THEN {"classify"} ELSE {})
      \cup (IF k >= 3 THEN {"evaluate"} ELSE {})
      \cup (IF k >= 4 THEN {"find_tool_by_intent"} ELSE {})
      \cup (IF k >= 5 THEN {"build_parameters"} ELSE {})
      \cup (IF k >= 6 THEN {"validate_parameters"} ELSE {})
      \cup (IF k >= 7 THEN {"get_tool_with_server", "connect_server", "call_tool"}
                      ELSE {})

\* C1: the stage ids of stage_results of every returned PipelineResult are
\* a prefix of the eight stages in their fixed order, none repeated and none
\* skipped.
C1_StagePrefix ==
    ppc = "returned" =>
        /\ Len(presult.stage_results) <= Len(PipelineStages)
        /\ StageIds(presult) = SubSeq(PipelineStages, 1, Len(presult.stage_results))

\* C1 witness: a request went through all eight stages.
C1_Witness ==
    /\ ppc = "returned"
    /\ Len(presult.stage_results) = 8
    /\ presult.success

\* C2: when a stage returned success=false, no later stage ran: the failed
\* entry is the last one, the record has success=false and status failed,
\* failed_stage is that stage, error is that stage's error, and every
\* earlier entry has success=true.
C2_FailureStops ==
    ppc = "returned" =>
        \A k \in 1..Len(presult.stage_results) :
            ~presult.stage_results[k].success =>
                /\ k = Len(presult.stage_results)
                /\ pcalls \subseteq CallsUpTo(k)
                /\ ~presult.success
                /\ presult.status = "failed"
                /\ presult.failed_stage = presult.stage_results[k].stage
                /\ presult.error = presult.stage_results[k].error
                /\ \A j \in 1..(k - 1) : presult.stage_results[j].success

\* C2 witness: tool execution failed after six successful stages.
C2_Witness ==
    /\ ppc = "returned"
    /\ Len(presult.stage_results) = 7
    /\ ~presult.stage_results[7].success
    /\ presult.failed_stage = "tool_execution"
    /\ "call_tool" \in pcalls

DeniedOutcome(error) ==
    /\ presult.status = "denied"
    /\ ~presult.success
    /\ presult.error = error
    /\ Len(presult.stage_results) = 3
    /\ \A k \in 1..3 : presult.stage_results[k].success
    /\ StageIds(presult) = SubSeq(PipelineStages, 1, 3)
    /\ presult.failed_stage = "None"
    /\ pcalls \subseteq CallsUpTo(3)

\* C3 (as amended): when rule evaluation returned DENY, execute ends with
\* status denied and success=false, error set to the rule result's reason or,
\* when that reason is empty, to "Denied by rule engine", exactly the first
\* three stages in stage_results, all successful, failed_stage unset, and no
\* registry tool lookup, parameter build, server connect or tool call made.
C3_DenyShortCircuits ==
    (ppc = "returned" /\ presult.rule_result.decision = "DENY")
        => DeniedOutcome(IF presult.rule_result.reason # ""
                           THEN presult.rule_result.reason
                           ELSE "Denied by rule engine")

\* C3 witness: a request was denied by a rule that has a description.
C3_Witness ==
    /\ ppc = "returned"
    /\ presult.rule_result.decision = "DENY"
    /\ presult.rule_result.reason # ""
    /\ presult.error = presult.rule_result.reason
    /\ presult.status = "denied"

\* C3 as stated in the specification: error is the rule result's reason.
C3_AsStated ==
    (ppc = "returned" /\ presult.rule_result.decision = "DENY")
        => DeniedOutcome(presult.rule_result.reason)

-----------------------------------------------------------------------------
(* Claims on the MCP client *)

ConnectReturned == cpc = "idle" /\ cret.kind = "connect_server"

\* C11: connect_server returns true and stores the connection only if the
\* transport connected, initialize succeeded, the initialized notification
\* was sent and, when the server advertises tools, tools/list succeeded and
\* its catalog is cached on the connection; when it returns false the
\* transport is not connected and no connection is stored.
C11_ConnectAllOrNothing ==
    ConnectReturned =>
        IF cret.ok
          THEN /\ cconn # NoConn
               /\ {"connect", "initialize", "notify"} \subseteq cdone
               /\ cconn.capabilities_tools =>
                    ("tools" \in cdone /\ cconn.tools = "cached")
          ELSE cconn = NoConn /\ calive # "up"

\* C12: a failed call_tool carries -32000 when no connection is stored,
\* -32001 when the connection is not initialized, -32002 when the transport
\* request timed out, -32603 for another exception and the server's code for
\* a JSON-RPC error; stage 7 fails with the result's error string.
C12_ErrorCodes ==
    /\ (cret.kind = "call_tool" /\ ~cret.success) =>
          cret.error_code =
              CASE cret.cause = "no_connection" -> -32000
                [] cret.cause = "not_initialized" -> -32001
                [] cret.cause = "timeout" -> -32002
                [] cret.cause = "rpc_error" -> -32601
                [] OTHER -> -32603
    /\ (xpc = "returned" /\ xlog.called) =>
          /\ cret.kind = "call_tool"
          /\ xres.success = cret.success
          /\ ~cret.success => xres.error = cret.error

\* C13: when stage 7 finds the server of the tool not connected (no stored
\* connection, or a stored one whose transport died or was closed), it
\* attempts connect_server before the call, and it does not call the tool
\* when that connect fails.
C13_ReconnectBeforeCall ==
    (xpc = "returned" /\ xres.error # "Tool or server not found" /\ xlog.down) =>
        /\ xlog.connect_attempted
        /\ ~xlog.connect_ok => ~xlog.called

\* C25: a call_tool, ping_server or list_connections that runs while
\* connect_server replaces the stored connection of the server finds a
\* connection for the server.
C25_ReplaceIsAtomic ==
    (cobs # NoObs /\ cobs.replacing) => cobs.found

Stage7Succeeded ==
    /\ Len(presult.stage_results) >= 7
    /\ presult.stage_results[7].stage = "tool_execution"
    /\ presult.stage_results[7].success

\* C29: once stage 7 has succeeded, Pipeline.execute returns with stage 8
\* recorded as successful, success = true, status success and no failed stage
\* or error, whatever the tool's content is; when the formatting raised, the
\* result is the tool's content as it was.
C29_FormattingNeverFails ==
    (ppc = "returned" /\ Stage7Succeeded) =>
       /\ Len(presult.stage_results) = 8
       /\ presult.stage_results[8].stage = "response_formatting"
       /\ presult.stage_results[8].success
       /\ presult.success = TRUE
       /\ presult.status = "success"
       /\ presult.failed_stage = "None"
       /\ presult.error = "None"
       /\ FormatRaises(presult.tool_content) => presult.result = presult.tool_content

\* C29 witness: execute has returned success for a content list whose second
\* block carries a number as its text, which the join rejects.
C29_Witness ==
    /\ ppc = "returned"
    /\ Stage7Succeeded
    /\ presult.tool_content.k = "list"
    /\ Len(presult.tool_content.items) = 2
    /\ presult.tool_content.items[2].text.t = "num"
    /\ presult.result = presult.tool_content
    /\ presult.success = TRUE

BlankTexts == {<<>>, <<"_">>}

\* C30: for an empty or whitespace-only text, stage 1 succeeds with an empty
\* extraction result, stage 2 succeeds with intent "unknown", confidence 0,
\* not forced, marked empty_input and with no prediction asked for; with the
\* default rules, for either role, execute returns success = false, denied
\* after stage 3 if the rule evaluation returned, and no tool was looked up,
\* built for, connected to or called.
C30_BlankInputIsRefused ==
    (ppc \in {"running", "returned"} /\ pinput.text \in BlankTexts) =>
       /\ Len(presult.stage_results) >= 1 =>
             /\ presult.stage_results[1].success
             /\ presult.entities = EntityExtractionResult(<<>>, <<>>, "", "")
       /\ Len(presult.stage_results) >= 2 =>
             /\ presult.stage_results[2].success
             /\ presult.intent
                   = IntentResult("unknown", 0, FALSE, "None", "empty_input", FALSE)
       /\ (DefaultRuleSet /\ ppc = "returned") =>
             /\ presult.success = FALSE
             /\ Len(presult.stage_results) = 3
             /\ presult.stage_results[3].success => presult.status = "denied"
             /\ presult.tool_name = "None"
             /\ pcalls = {"extract", "classify", "evaluate"}

\* C30 witness: an admin's whitespace-only request came back denied by the
\* default rules, with a trained classifier at hand.
C30_Witness ==
    /\ ppc = "returned"
    /\ pinput.text = <<"_">>
    /\ pinput.user_role = "admin"
    /\ trained
    /\ DefaultRuleSet
    /\ presult.status = "denied"
    /\ presult.success = FALSE

-----------------------------------------------------------------------------
(* Claims on discover_all *)

\* C31: discover_all comes back with a list that holds exactly one result
\* for each enabled configured server, in the order of the configs, whatever
\* failed for any of the servers.
C31_OneResultPerServer ==
    (apc \in {"returned", "raised"}) =>
       /\ apc = "returned"
       /\ [k \in 1..Len(aresults) |-> aresults[k].server_id]
             = SelectSeq([k \in ServerIds |-> k], LAMBDA k : acfg[k].enabled)

-----------------------------------------------------------------------------
(* Claims on the registry *)

\* C32: at most one server row exists per server_id at any time; no step
\* removes a server row's primary key or changes the server_id it carries, no
\* step of register_server touches the tool rows, and a register_server that
\* found the server_id already there returns the primary key of that row.
C32_ReRegisterKeepsRecord ==
    /\ [](\A r, q \in gservers : r.server_id = q.server_id => r = q)
    /\ [][ /\ \A r \in gservers :
                \E q \in gservers' : q.id = r.id /\ q.server_id = r.server_id
           /\ gtools' = gtools
           /\ \A t \in RegistryTasks :
                (gtask[t].pc = "flushed" /\ gtask'[t].pc = "idle"
                   /\ gtask[t].existing # NoRow)
                  => gtask'[t].ret = gtask[t].existing.id ]_vars

\* C32 witness: server "a", registered before with its tools, has been
\* registered again under another name and its row carries the new name.
C32_Witness ==
    /\ \E t \in RegistryTasks :
          /\ gtask[t].pc = "idle" /\ gtask[t].ret = 1
          /\ gtask[t].existing = ServerRow(1, "a", "alpha")
    /\ ServerRow(1, "a", "beta") \in gservers
    /\ ToolRow(1, "read_file", TRUE) \in gtools

\* C40: list_tools(server_id=X) returns only tool rows of the server row
\* whose server_id is X, and nothing if there is no such row.
C40_ListToolsOnlyOfServer ==
    (glisted # NoListing /\ glisted.server_id # "None") =>
       \A t \in glisted.tools :
          \E r \in gservers : r.server_id = glisted.server_id /\ r.id = t.server

\* C33: when the server has answered initialize and stays silent on
\* notifications/initialized, connect_server returns true and the stored
\* connection has is_initialized set.
C33_HandshakeNeedsNoReplyToNotification ==
    (/\ cpc = "idle"
     /\ cret.kind = "connect_server"
     /\ {"initialize", "unanswered"} \subseteq cdone)
       => (cret.ok /\ cconn # NoConn /\ cconn.is_initialized)

\* C35: a connection held in the connection map is initialized and went
\* through connect, initialize and the initialized notification, and no
\* call_tool returns the "Server not initialized" error -32001.
C35_StoredConnectionsInitialized ==
    /\ cconn # NoConn =>
          (cconn.is_initialized = TRUE
             /\ {"connect", "initialize", "notify"} \subseteq cdone)
    /\ cret.kind = "call_tool" => cret.error_code # 0 - 32001
    /\ xres.error # "Server not initialized"

\* C35 witness: a tool call succeeded on a connection that replaced an
\* earlier one.
C35_Witness ==
    /\ cret.kind = "call_tool" /\ cret.success
    /\ cconn # NoConn /\ cconn.is_initialized = TRUE
    /\ "replace" \in cdone

\* C36: after connect_server has returned false, the server has no entry in
\* the connection map, whether or not it had one before the call, and the
\* transport the call made is not left connected.
C36_FailedConnectLeavesNothing ==
    (cpc = "idle" /\ cret.kind = "connect_server" /\ ~cret.ok)
       => (cconn = NoConn /\ calive \in {"none", "closed"})

\* C36 witness: a connect_server for a server that had a connection tore it
\* down, connected a new transport, failed in the handshake and returned
\* false.
C36_Witness ==
    /\ cpc = "idle" /\ cret.kind = "connect_server" /\ ~cret.ok
    /\ {"replace", "connect"} \subseteq cdone
    /\ cconn = NoConn
    /\ calive = "closed"

-----------------------------------------------------------------------------
(* Claims on concurrent executions *)

\* C34: for executions that reach stage 7 together while the server has no
\* stored connection, the transport an execution awaits its response on is
\* connected, an execution that connected finds its connection stored, and
\* every execution whose connects succeeded ends with the tool call's success.
C34_ConcurrentCallsKeepTheirConnection ==
    \A e \in Executions :
       /\ sexec[e].pc = "awaiting" => sexec[e].transport \in slive
       /\ sexec[e].pc = "done" =>
             sexec[e].result \in {"success", "Could not connect to server"}

-----------------------------------------------------------------------------
(* Further claims on the pipeline *)

AllEightSucceeded ==
    /\ Len(presult.stage_results) = Len(PipelineStages)
    /\ \A k \in 1..Len(PipelineStages) :
          /\ presult.stage_results[k].stage = PipelineStages[k]
          /\ presult.stage_results[k].success

\* C37: a PipelineResult that execute has returned has status success,
\* failed or denied; its success is true exactly when its status is success,
\* and that exactly when stage_results holds the eight stages, all successful.
C37_FinalStatus ==
    ppc = "returned" =>
       /\ presult.status \in {"success", "failed", "denied"}
       /\ (presult.success = TRUE) <=> (presult.status = "success")
       /\ (presult.status = "success") <=> AllEightSucceeded

\* C37 witness: execute returned after stage 7 had failed, the status having
\* passed through running.
C37_Witness ==
    /\ ppc = "returned"
    /\ presult.failed_stage = "tool_execution"
    /\ presult.status = "failed"
    /\ Len(presult.stage_results) = 7

\* Names of the matched rules of the pipeline's rule result that deny.
MatchedDenies ==
    {presult.rule_result.matched_rules[k] :
        k \in {j \in 1..Len(presult.rule_result.matched_rules) :
                 RuleNamed(presult.rule_result.matched_rules[j]).decision = "DENY"}}

\* C39: in execute the rule context of stage 3 has is_destructive false,
\* requires_confirmation false and request_count 0; with the default rule set
\* the only rule that can match as a deny is confidence_threshold, a request
\* whose intent is forced is never denied, and the decision is never MODIFY.
C39_DefaultRulesInPipeline ==
    /\ (ppc \in {"running", "returned"} /\ presult.intent # NoIntent) =>
          LET context == RuleContextOf(pinput, presult.intent)
          IN  /\ context.is_destructive = FALSE
              /\ context.requires_confirmation = FALSE
              /\ context.request_count = 0
    /\ (presult.rule_result # NoResult /\ DefaultRuleSet) =>
          /\ presult.rule_result.decision # "MODIFY"
          /\ presult.rule_result.modifications = {}
          /\ MatchedDenies \subseteq {"confidence_threshold"}
          /\ presult.intent.is_forced =>
                (presult.rule_result.decision = "ALLOW" /\ presult.status # "denied")

\* C39 witness: with the default rules a guest's request with a forced intent
\* went through stage 3 and was allowed, no rule having matched.
C39_Witness ==
    /\ presult.rule_result # NoResult
    /\ DefaultRuleSet
    /\ pinput.user_role = "guest"
    /\ presult.intent.is_forced = TRUE
    /\ presult.rule_result.decision = "ALLOW"
    /\ presult.rule_result.matched_rules = <<>>
    /\ Len(presult.stage_results) >= 3

\* C39 witness of the deny: with the default rules a request whose intent is
\* not forced was denied, and confidence_threshold is the rule that denied it.
C39_DeniedByThreshold ==
    /\ presult.rule_result # NoResult
    /\ DefaultRuleSet
    /\ presult.status = "denied"
    /\ MatchedDenies = {"confidence_threshold"}

=============================================================================
